---- MODULE Spec2Model ----
(***************************************************************************)
(* Chunked file transfer of the agent: the upload and the download         *)
(* executor (start / run / pause / resume / cancel), the supervisor loop   *)
(* that hands block indices to workers under a 16-permit semaphore, and    *)
(* the workers that transfer one block each and revert their index when    *)
(* they fail or are cancelled.                                             *)
(*                                                                         *)
(* One task (one task id) is modelled.  The runtime is multi-threaded      *)
(* (src/app/src/main.rs:26), so every atomic operation on shared state     *)
(* (queue pop/push, permit acquire/release, flag store, token cancel, map  *)
(* lock) is a step of its own and the steps of different tasks interleave. *)
(*                                                                         *)
(* Two further services are modelled, each under a specification of its    *)
(* own because they share no state with the transfer: the authorization    *)
(* middleware with its token cell (AuthSpec) and the job service of the    *)
(* ExecuteUsecase tasks with its periodic refresh (JobSpec, JobSeqSpec).   *)
(* So are the pause token with the futures attached to it (PauseSpec,      *)
(* PauseFairSpec) and the deploy and collect services with the permits of  *)
(* the deploy service (DeploySpec).  FailSpec is the transfer against a    *)
(* file storage that rejects every chunk.                                  *)
(***************************************************************************)
EXTENDS Integers, Sequences, FiniteSets, TLC

VARIABLES
    \* ---- inputs of the task (fixed by Init)
    kind,            \* "upload" | "download" | "text" (download of inline text)
    file_size,       \* upload: size of the local file; download: Content-Length of HEAD
    file_present,    \* upload: the local file exists
    optional,        \* upload: UploadFile.optional
    \* ---- executor (TaskService::start / run)
    svc_pc,          \* position of start/run
    result,          \* value returned by run: "" | "cancel" | "optional" | "err"
    reports,         \* how often each TaskStatus was handed to the status reporter
    id2supervisor,   \* set of task ids that have an entry in the id->supervisor map
    map_lock,        \* holder of the id2supervisor mutex across steps
    file_id,         \* task_file.file_id
    prep_status,     \* status code of the Prepare reply (NoStatus before it)
    shards,          \* shards returned by PartialUploadInfo
    info_requests,   \* file ids for which PartialUploadInfo was requested
    requests,        \* chunk requests issued: [nth, file_metadata_id]
    file_exists,     \* download: the local target file exists
    \* ---- supervisor
    sup_pc,          \* position of the supervisor loop
    sup_idx,         \* block index popped by the loop and not yet handed to a worker
    total,           \* block indices the supervisor was created with
    index_queue,     \* ArrayQueue of block indices
    start_guard,     \* available permits of the semaphore
    pause_token,     \* PauseFlag.set
    cancel_workers,  \* identity of the current worker-cancellation token
    cancelled,       \* identities of the worker-cancellation tokens that were cancelled
    cancel_transfer, \* cancel_download / cancel_upload token is cancelled
    workers,         \* spawned workers, by permit slot
    completed,       \* block indices whose transfer returned successfully
    \* ---- lifecycle calls issued by the dispatcher
    pause_pc, resume_pc, cancel_pc,
    events_left,     \* lifecycle calls and failing chunk transfers still to come
    missed           \* lifecycle calls that ended "supervisor not found" although
                     \* they were issued while the supervisor loop was running

VARIABLES
    \* ---- AuthMiddleware: the token cell and the requests passing through it
    token,           \* the ArcSwap cell: [access_token, refresh_token]
    grants,          \* number of pairs the token endpoint has issued
    req,             \* per request in flight: position, retries so far, header, refresh in hand
    proc,            \* "up" | "aborted": the agent process
    panic_abort,     \* the build aborts on panic (else a panic unwinds its task)
    after_fatal      \* what was sent after the fatal branch was taken

authVars == << token, grants, req, proc, panic_abort, after_fatal >>

VARIABLES
    \* ---- JobServiceImpl: one ExecuteUsecase task
    scheduler,       \* "slurm" | "lsf": the back-end behind JobScheduler
    repo,            \* state of the Job stored under the task id, or "none"
    js_pc,           \* position of start; "err_..": start returned Err
    rf,              \* the refresh of the periodic tick and that of a call
    call_pc,         \* position of pause / resume / cancel
    call_op,         \* the call being handled
    call_errs,       \* calls that returned Err (logged by SelectTaskService)
    job_events_left, \* ticks and calls that may still begin
    jreports,        \* how often each status was reported, by sender
    prev_poll,       \* the get_job answer before the last one
    last_poll        \* the last get_job answer and the report chosen on it

jobVars == << scheduler, repo, js_pc, rf, call_pc, call_op, call_errs,
              job_events_left, jreports, prev_poll, last_poll >>

VARIABLES
    \* ---- PauseToken: one token and the futures attached to it
    pt_set,          \* PauseFlag.set
    pt_waker,        \* PauseFlag.waker: the future whose task is registered
    wake_pending,    \* resume() calls that stored the flag and have not yet woken
    fut,             \* per future: position of its task, and whether it was notified
    pt_ops_left      \* pause() and resume() calls that may still begin

pauseVars == << pt_set, pt_waker, wake_pending, fut, pt_ops_left >>

VARIABLES
    \* ---- DeploySoftwareService and CollectOutputService
    dtask,           \* per task: kind, position of start, position of run, result of run
    deploy_guard,    \* available permits of DeploySoftwareState.start_guard
    cancel_map,      \* task ids that have a token in the cancel_map of their service
    dtoken,          \* task ids whose cancellation token is cancelled
    dcancel_pc,      \* per task: position of a cancel(id) under way
    dcancels_left,   \* cancel calls that may still begin
    dlog             \* per task: the statuses reported, in order

deployVars == << dtask, deploy_guard, cancel_map, dtoken, dcancel_pc,
                 dcancels_left, dlog >>

VARIABLES
    \* ---- DownloadFileWorker::run: the Range headers of one download
    rg_file_size,    \* DownloadFileSupervisor.file_size
    rg_block_size,   \* DownloadFileServiceInner.block_size
    rg_sent          \* per block index: the Range header sent for it, if any

rangeVars == << rg_file_size, rg_block_size, rg_sent >>

VARIABLES
    \* ---- CollectOutputService::run: one collect task
    co_input,        \* the lines of the file loaded (each line is named by its number)
    co_rule,         \* CollectOutput.rule
    co_pc,           \* position of run
    co_output        \* the lines saved, in order (joined by "\n" in the code)

collectVars == << co_input, co_rule, co_pc, co_output >>

VARIABLES
    \* ---- RetryStreamClient::execute: one call
    rt_max_retries,  \* max_n_retries of the ExponentialBackoff policy
    rt_n_past_retries, \* n_past_retries, the local of execute
    rt_pc,           \* position of execute
    rt_sends,        \* invocations of the caller's closure so far
    rt_result,       \* the result of the last invocation
    rt_returned      \* what execute returned

retryVars == << rt_max_retries, rt_n_past_retries, rt_pc, rt_sends,
                rt_result, rt_returned >>

VARIABLES
    \* ---- PbsClient: one job record of qstat and what the client decodes
    pbs_job_state,   \* job_state of the record
    pbs_exit_status, \* Exit_status of the record
    pbs_exit_first,  \* in the qstat -xfw text Exit_status precedes job_state
    pbs_jobs,        \* the state get_jobs returned for the record, and its path
    pbs_job          \* the state get_job returned for the record, and its path

pbsVars == << pbs_job_state, pbs_exit_status, pbs_exit_first, pbs_jobs, pbs_job >>

VARIABLES
    \* ---- timer::new driving refresh_all (the periodic refresh task)
    tm_due,          \* ticks of the interval that have elapsed and are not consumed
    tm_pc,           \* position of the loop of timer::new
    tm_iterations,   \* calls of f() made so far
    tm_active,       \* calls of refresh_all that have begun and not returned
    tm_repo,         \* task ids in the repo of the job service
    tm_ids,          \* refresh_all: the ids collected and not yet refreshed
    tm_refreshing    \* task ids whose refresh(id) has begun and not returned

timerVars == << tm_due, tm_pc, tm_iterations, tm_active, tm_repo, tm_ids,
                tm_refreshing >>

VARIABLES
    \* ---- SelectTaskService for Container: the dispatch of lifecycle commands
    dp_left,         \* commands still to arrive
    dp_pc,           \* position of the call of start / pause / resume / cancel
    dp_cmd,          \* the command under dispatch: operation and task type
    dp_call,         \* the executor operation called for it, and its result
    dp_log,          \* tracing::error! lines written, in order
    dp_returned      \* commands whose dispatch has returned to the caller

dispatchVars == << dp_left, dp_pc, dp_cmd, dp_call, dp_log, dp_returned >>

VARIABLES
    \* ---- the three mutexes of an upload and the tasks that take them
    lk,              \* per mutex (map, cancel_workers, file): its holder
    lk_pc,           \* position of start (with the supervisor loop), pause, resume, cancel
    lk_worker,       \* per worker: position of its spawned task
    lk_in_map,       \* the supervisor of the task is in id2supervisor
    lk_paused,       \* pause_token is set
    lk_cancel_upload,\* cancel_upload is cancelled
    lk_cancelled,    \* workers whose clone of the cancel_workers token is cancelled
    lk_queue,        \* block indices in index_queue
    lk_ops_left,     \* pause, resume and cancel calls that may still begin
    lk_fails_left    \* reads of the file that may still fail

lockVars == << lk, lk_pc, lk_worker, lk_in_map, lk_paused, lk_cancel_upload,
               lk_cancelled, lk_queue, lk_ops_left, lk_fails_left >>

\* state of the small services and pure functions, one specification each
unitVars == << rangeVars, collectVars, retryVars, pbsVars, timerVars, dispatchVars, lockVars >>

\* state of the services an action of another service leaves alone
restVars == << authVars, jobVars, pauseVars, deployVars, unitVars >>

vars == << kind, file_size, file_present, optional, svc_pc, result, reports,
           id2supervisor, map_lock, file_id, prep_status, shards, info_requests,
           requests, file_exists, sup_pc, sup_idx, total, index_queue, start_guard,
           pause_token, cancel_workers, cancelled, cancel_transfer, workers,
           completed, pause_pc, resume_pc, cancel_pc, events_left, missed,
           authVars, jobVars, pauseVars, deployVars, unitVars >>

(***************************************************************************)
(* Program constants                                                       *)
(***************************************************************************)
MAX_WORKER_COUNT == 16
DEPLOY_PERMITS == 5

OK == 0
FLASH_UPLOAD == 100
INCOMPLETE_UPLOAD == 101
INCOMPLETE_OLD_UPLOAD == 102

(***************************************************************************)
(* Bounds of the model                                                     *)
(***************************************************************************)
BlockSize == 2        \* configured part size, in bytes
MaxFileSize == 3      \* file sizes 0..MaxFileSize
MaxEvents == 2        \* lifecycle calls issued plus chunk transfers failing, in a run
MaxRequests == 2      \* requests passing through the auth middleware at a time
MaxRetries == 1       \* max_retries of the retry policy
MaxGrants == 2        \* pairs the token endpoint issues in a run
MaxJobEvents == 3     \* refresh ticks and lifecycle calls of the job, in a run
MaxFutures == 2       \* futures attached to one pause token
MaxTokenOps == 3      \* pause() and resume() calls on the token, in a run
MaxNewTasks == 2      \* deploy / collect tasks that arrive in a run
MaxDeployCancels == 2 \* cancel calls for deploy / collect tasks, in a run

SatBlocks == MAX_WORKER_COUNT + 1        \* one block more than there are permits
SatFileSize == SatBlocks * BlockSize

ServerError == OK + 1  \* a Prepare status other than 0, 100, 101, 102
NoStatus == 0 - 1
NoIndex == 0 - 1
NoWorker == [block_index |-> NoIndex, cancel_token |-> NoIndex, st |-> "none"]
Task == "A"
BodyFileId == "F1"    \* file_id of the task body
MetaId == "F2"        \* meta_id of an IncompleteOldUpload reply

\* identities of spawned workers; one more than the permits, so that a worker
\* without a permit of its own has an identity too
Slots == 1..(MAX_WORKER_COUNT + 1)

TaskStatus == {"Queued", "Started", "Completed", "Failed", "Paused", "Resumed",
               "Cancelled"}

(***************************************************************************)
(* Helpers                                                                 *)
(***************************************************************************)
div_ceil(n, b) == (n + b - 1) \div b

Range(s) == { s[i] : i \in 1..Len(s) }

Min(S) == CHOOSE x \in S : \A y \in S : x <= y

RECURSIVE Ascending(_)
Ascending(S) == IF S = {} THEN << >> ELSE << Min(S) >> \o Ascending(S \ {Min(S)})

\* ArrayQueue filled with 0..block_count-1 in order
FillQueue(block_count) == [ i \in 1..block_count |-> i - 1 ]

Live == { w \in Slots : workers[w] # NoWorker }
FreeSlot == Min(Slots \ Live)

\* TaskStatusReporter::report / report_msg
report(status) == [reports EXCEPT ![status] = @ + 1]

inVars == << kind, file_size, file_present, optional >>
supVars == << sup_pc, sup_idx, total, index_queue, start_guard, pause_token,
              cancel_workers, cancelled, cancel_transfer, workers, completed,
              requests >>
envVars == << pause_pc, resume_pc, cancel_pc, events_left, missed >>

(***************************************************************************)
(* AuthMiddleware: state                                                   *)
(***************************************************************************)
EXPIRED_SIGNATURE == "ExpiredSignature"

Reqs == 1..MaxRequests

NoToken == 0 - 1
NoReq == [pc |-> "new", tries |-> 0, hdr |-> NoToken, rtok |-> NoToken,
          grant |-> NoToken]

\* a GrantInfo of the token endpoint: the g-th pair it issues
GrantInfo(g) == [access_token |-> g, refresh_token |-> g]

\* AuthMiddleware::new with the pair of the login.  builds are the panic
\* strategies the build may have: the sources fix none, so a panic either
\* unwinds the task it happens in (the default) or aborts the process
AuthStartWith(builds) ==
    /\ token = GrantInfo(0)
    /\ grants = 0
    /\ req = [ r \in Reqs |-> NoReq ]
    /\ proc = "up"
    /\ panic_abort \in builds
    /\ after_fatal = {}

(***************************************************************************)
(* JobServiceImpl: state                                                   *)
(***************************************************************************)
JobState == {"Queuing", "Running", "Suspended", "Completing", "Completed",
             "Failed", "Unknown"}

Senders == {"start", "refresh", "call"}
Refreshers == {"tick", "call"}

NoPoll == [by |-> "none", pre |-> "", raw |-> "", state |-> "", report |-> "none"]
NoRefresh == [pc |-> "idle", pre_state |-> "none"]

\* a fresh JobServiceState; schedulers are the configured back-ends and
\* events the ticks and calls that will arrive
JobStartWith(schedulers, events) ==
    /\ scheduler \in schedulers
    /\ repo = "none"
    /\ js_pc = "init"
    /\ rf = [ p \in Refreshers |-> NoRefresh ]
    /\ call_pc = "idle"
    /\ call_op = "none"
    /\ call_errs = {}
    /\ job_events_left = events
    /\ jreports = [ st \in TaskStatus, by \in Senders |-> 0 ]
    /\ prev_poll = NoPoll
    /\ last_poll = NoPoll

\* no ExecuteUsecase task arrives
JobIdle == JobStartWith({"slurm"}, 0)

(***************************************************************************)
(* PauseToken: state                                                       *)
(***************************************************************************)
Futs == 1..MaxFutures

NoFut == 0 - 1
NotAttached == [pc |-> "none", notified |-> FALSE, woken |-> FALSE]
Attached == { f \in Futs : fut[f].pc # "none" }

\* PauseToken::default and attach: the flag is clear, no waker is registered,
\* and each attached future is the root future of a task that was spawned.
\* counts are the numbers of futures attached, ops the calls that will arrive
PauseStartWith(counts, ops) ==
    /\ pt_set = FALSE
    /\ pt_waker = NoFut
    /\ wake_pending = 0
    /\ \E n \in counts :
         fut = [ f \in Futs |->
                   IF f <= n
                     THEN [pc |-> "scheduled", notified |-> FALSE, woken |-> FALSE]
                     ELSE NotAttached ]
    /\ pt_ops_left = ops

\* no token is in use
PauseIdle == PauseStartWith({0}, 0)

(***************************************************************************)
(* DeploySoftwareService / CollectOutputService: state.  The two services  *)
(* keep a cancel_map each; task ids are unique, so one set holds the ids    *)
(* of both.                                                                *)
(***************************************************************************)
\* the tasks that arrive in a run, one task that is installing when the run
\* begins, and the tasks whose installs outlast the run
NewTasks == 1..MaxNewTasks
FirstTask == MaxNewTasks + 1
LongTasks == (FirstTask + 1)..(FirstTask + DEPLOY_PERMITS - 1)
DTasks == NewTasks \cup {FirstTask} \cup LongTasks

NoDTask == [kind |-> "none", pc |-> "none", run |-> "", res |-> ""]
NewDTask(k) == [kind |-> k, pc |-> "init", run |-> "", res |-> ""]
\* a deploy task inside run, after its Started report
InstallingDTask == [kind |-> "deploy", pc |-> "select", run |-> "work", res |-> ""]

\* Container::new: DeploySoftwareState::new(5) and CollectOutputState::default;
\* n Start commands for deploy or collect tasks have been decoded
DeployFresh(n, cancels) ==
    /\ \E kinds \in [ 1..n -> {"deploy", "collect"} ] :
         dtask = [ t \in DTasks |-> IF t <= n THEN NewDTask(kinds[t]) ELSE NoDTask ]
    /\ deploy_guard = DEPLOY_PERMITS
    /\ cancel_map = {}
    /\ dtoken = {}
    /\ dcancel_pc = [ t \in DTasks |-> "idle" ]
    /\ dcancels_left = cancels
    /\ dlog = [ t \in DTasks |-> << >> ]

\* a later state of the same program: all permits are held by deploy tasks
\* that are installing, and n further deploy tasks arrive
DeploySaturated(n, cancels) ==
    LET old == {FirstTask} \cup LongTasks IN
    /\ dtask = [ t \in DTasks |->
                   IF t \in old THEN InstallingDTask
                   ELSE IF t <= n THEN NewDTask("deploy")
                   ELSE NoDTask ]
    /\ deploy_guard = DEPLOY_PERMITS - Cardinality(old)
    /\ cancel_map = old
    /\ dtoken = {}
    /\ dcancel_pc = [ t \in DTasks |-> "idle" ]
    /\ dcancels_left = cancels
    /\ dlog = [ t \in DTasks |-> IF t \in old THEN << "Queued", "Started" >> ELSE << >> ]

\* no deploy or collect task arrives
DeployIdle == DeployFresh(0, 0)

(***************************************************************************)
(* Range headers of a download: file_size and block_size are the inputs.   *)
(***************************************************************************)
MaxRangeSize == 6
MaxRangeBlock == 4

\* DownloadFileSupervisor::new: block_count is an argument, computed by the
\* caller as file_size.div_ceil(block_size)
rg_block_count == div_ceil(rg_file_size, rg_block_size)

NoRange == << >>

RangeStartWith(sizes, blocks) ==
    /\ rg_file_size \in sizes
    /\ rg_block_size \in blocks
    /\ rg_sent = [ i \in 0..(MaxRangeSize - 1) |-> NoRange ]

RangeIdle == RangeStartWith({0}, {1})

(***************************************************************************)
(* Rules of a collect task: the input is a text of at most MaxLines lines  *)
(* and the rule keeps the first or the last n of them.                     *)
(***************************************************************************)
MaxLines == 5
MaxRuleLines == 7

Lines(k) == [ i \in 1..k |-> i ]

CollectStartWith(counts, rules) ==
    /\ co_input \in { Lines(k) : k \in counts }
    /\ co_rule \in rules
    /\ co_pc = "load"
    /\ co_output = << >>

CollectIdle ==
    /\ CollectStartWith({0}, {[kind |-> "TopLines", n |-> 0]})

(***************************************************************************)
(* The stream-retry driver: the results a send can have, as far as the     *)
(* classifier tells them apart.                                            *)
(***************************************************************************)
MaxStreamRetries == 3

\* Err(Middleware), Err(Reqwest) of the transient and of the other shape,
\* and Ok with a 2xx, 401, other 4xx or 5xx status
SendResults == {"ErrMiddleware", "ErrReqwestTransient", "ErrReqwestOther",
                "OK", "UNAUTHORIZED", "CLIENT_ERROR", "SERVER_ERROR"}

NoResult == [attempt |-> 0, res |-> "none"]

\* Err(Middleware) made by execute itself from the failed to_std()
DurationError == [attempt |-> 0, res |-> "ErrMiddleware"]

RetryStartWith(limits) ==
    /\ rt_max_retries \in limits
    /\ rt_n_past_retries = 0
    /\ rt_pc = "send"
    /\ rt_sends = 0
    /\ rt_result = NoResult
    /\ rt_returned = NoResult

RetryIdle ==
    /\ RetryStartWith({0})

(***************************************************************************)
(* PBS: the job records qstat can print for one job.                       *)
(***************************************************************************)
\* the letters the client tells apart, and one it does not know
PbsStates == {"R", "E", "F", "S", "U", "Q", "H", "X"}

\* exit statuses: success, 254, and two failures
ExitStatuses == {0, 1, 2, 254}

NotDecoded == [path |-> "none", state |-> "none"]

PbsStartWith(states, exits, orders) ==
    /\ pbs_job_state \in states
    /\ pbs_exit_status \in exits
    /\ pbs_exit_first \in orders
    /\ pbs_jobs = NotDecoded
    /\ pbs_job = NotDecoded

PbsIdle ==
    /\ PbsStartWith({"R"}, {0}, {FALSE})

(***************************************************************************)
(* The periodic refresh: the jobs in the repo and the ticks of the         *)
(* interval are the inputs.                                                *)
(***************************************************************************)
MaxTimerJobs == 2
MaxDueTicks == 2
MaxIterations == 3

TimerJobs == 1..MaxTimerJobs

\* the orders in which the iteration over the repo can yield a set of ids
Orders(S) ==
    { q \in UNION { [1..n -> S] : n \in {Cardinality(S)} } :
        \A i, j \in DOMAIN q : i # j => q[i] # q[j] }

TimerStartWith(repos, due) ==
    /\ tm_due = due
    /\ tm_pc = "tick"
    /\ tm_iterations = 0
    /\ tm_active = 0
    /\ tm_repo \in repos
    /\ tm_ids = << >>
    /\ tm_refreshing = {}

\* the refresh task is not started: no tick ever elapses
TimerIdle ==
    /\ TimerStartWith({{}}, 0 - 1)

(***************************************************************************)
(* Dispatch of lifecycle commands to the five executors.                   *)
(***************************************************************************)
MaxCommands == 2

TaskTypes == {"DeploySoftware", "DownloadFile", "ExecuteUsecase", "UploadFile",
              "CollectOuput"}

Operations == {"start", "pause", "resume", "cancel"}

NoCommand == [op |-> "none", type |-> "none"]

NoCall == [executor |-> "none", op |-> "none", result |-> "none"]

DispatchStartWith(n) ==
    /\ dp_left = n
    /\ dp_pc = "idle"
    /\ dp_cmd = NoCommand
    /\ dp_call = NoCall
    /\ dp_log = << >>
    /\ dp_returned = 0

DispatchIdle ==
    /\ DispatchStartWith(0)

(***************************************************************************)
(* Mutexes of an upload: the blocks to transfer, the lifecycle calls and   *)
(* the failing reads are the inputs.                                       *)
(***************************************************************************)
MaxLockWorkers == 2
MaxLockBlocks == 2
MaxLockOps == 2
MaxLockFails == 1

LockWorkers == 1..MaxLockWorkers

Callers == {"start", "pause", "resume", "cancel"}

Mutexes == {"map", "cancel_workers", "file"}

\* the holders of a mutex: nobody, one of the four calls, or a worker
Free == [task |-> "free", n |-> 0]

CallerName(c) == [task |-> c, n |-> 0]

WorkerName(w) == [task |-> "worker", n |-> w]

LockStartWith(start_pc, blocks, ops, fails) ==
    /\ lk = [ m \in Mutexes |-> Free ]
    /\ lk_pc = [ c \in Callers |-> IF c = "start" THEN start_pc ELSE "idle" ]
    /\ lk_worker = [ w \in LockWorkers |-> "none" ]
    /\ lk_in_map = FALSE
    /\ lk_paused = FALSE
    /\ lk_cancel_upload = FALSE
    /\ lk_cancelled = {}
    /\ lk_queue \in blocks
    /\ lk_ops_left = ops
    /\ lk_fails_left = fails

\* no upload is started and no call arrives
LockIdle ==
    /\ LockStartWith("done", {0}, 0, 0)

\* none of the small services is started
UnitsIdle ==
    /\ RangeIdle
    /\ CollectIdle
    /\ RetryIdle
    /\ PbsIdle
    /\ TimerIdle
    /\ DispatchIdle
    /\ LockIdle

\* every small service but this one is idle
RangeAlone ==
    /\ CollectIdle
    /\ RetryIdle
    /\ PbsIdle
    /\ TimerIdle
    /\ DispatchIdle
    /\ LockIdle

\* every small service but this one is idle
CollectAlone ==
    /\ RangeIdle
    /\ RetryIdle
    /\ PbsIdle
    /\ TimerIdle
    /\ DispatchIdle
    /\ LockIdle

\* every small service but this one is idle
RetryAlone ==
    /\ RangeIdle
    /\ CollectIdle
    /\ PbsIdle
    /\ TimerIdle
    /\ DispatchIdle
    /\ LockIdle

\* every small service but this one is idle
PbsAlone ==
    /\ RangeIdle
    /\ CollectIdle
    /\ RetryIdle
    /\ TimerIdle
    /\ DispatchIdle
    /\ LockIdle

\* every small service but this one is idle
TimerAlone ==
    /\ RangeIdle
    /\ CollectIdle
    /\ RetryIdle
    /\ PbsIdle
    /\ DispatchIdle
    /\ LockIdle

\* every small service but this one is idle
DispatchAlone ==
    /\ RangeIdle
    /\ CollectIdle
    /\ RetryIdle
    /\ PbsIdle
    /\ TimerIdle
    /\ LockIdle

\* every small service but this one is idle
LockAlone ==
    /\ RangeIdle
    /\ CollectIdle
    /\ RetryIdle
    /\ PbsIdle
    /\ TimerIdle
    /\ DispatchIdle

(***************************************************************************)
(* Initial state: a Start command for one task has been decoded and the    *)
(* executor's start is about to run.  sizes and events are the inputs of   *)
(* the scenario.                                                           *)
(***************************************************************************)
InitWith(sizes, events) ==
    /\ kind \in {"upload", "download", "text"}
    /\ file_size \in sizes
    \* optional is read only when the local file of an upload is missing
    /\ file_present \in IF kind = "upload" THEN BOOLEAN ELSE {FALSE}
    /\ optional \in IF kind = "upload" /\ ~file_present THEN BOOLEAN ELSE {FALSE}
    /\ svc_pc = "init"
    /\ result = ""
    /\ reports = [ st \in TaskStatus |-> 0 ]
    /\ id2supervisor = {}
    /\ map_lock = "free"
    /\ file_id = BodyFileId
    /\ prep_status = NoStatus
    /\ shards = {}
    /\ info_requests = {}
    /\ requests = {}
    /\ file_exists = FALSE
    /\ sup_pc = "idle"
    /\ sup_idx = NoIndex
    /\ total = {}
    /\ index_queue = << >>
    /\ start_guard = MAX_WORKER_COUNT
    /\ pause_token = FALSE
    /\ cancel_workers = 0
    /\ cancelled = {}
    /\ cancel_transfer = FALSE
    /\ workers = [ w \in Slots |-> NoWorker ]
    /\ completed = {}
    /\ pause_pc = "idle"
    /\ resume_pc = "idle"
    /\ cancel_pc = "idle"
    /\ events_left = events
    /\ missed = {}

Init == InitWith(0..MaxFileSize, MaxEvents) /\ AuthStartWith({FALSE}) /\ JobIdle /\ PauseIdle /\ DeployIdle /\ UnitsIdle

(***************************************************************************)
(* UploadFileService::run                                                  *)
(***************************************************************************)
\* report Started (no SSH proxy is configured, so no scp pull precedes it)
UploadReportStarted ==
    /\ kind = "upload" /\ svc_pc = "init"
    /\ reports' = report("Started")
    /\ svc_pc' = "open"
    /\ UNCHANGED << restVars, inVars, supVars, envVars, result, id2supervisor, map_lock,
                    file_id, prep_status, shards, info_requests, file_exists >>

\* File::open where a missing file is an error whether optional or not
UploadOpenOptionalFails ==
    /\ svc_pc = "open"
    /\ IF file_present
         THEN svc_pc' = "prepare" /\ result' = result
         ELSE /\ svc_pc' = "remove"
              /\ result' = "err"
    /\ UNCHANGED << restVars, inVars, supVars, envVars, reports, id2supervisor, map_lock,
                    file_id, prep_status, shards, info_requests, file_exists >>

\* File::open: a missing optional file ends the run with a message
UploadOpen ==
    /\ svc_pc = "open"
    /\ IF file_present
         THEN svc_pc' = "prepare" /\ result' = result
         ELSE /\ svc_pc' = "remove"
              /\ result' = IF optional THEN "optional" ELSE "err"
    /\ UNCHANGED << restVars, inVars, supVars, envVars, reports, id2supervisor, map_lock,
                    file_id, prep_status, shards, info_requests, file_exists >>

\* a Prepare reply FLASH_UPLOAD handled like INCOMPLETE_UPLOAD
prepare_next_flash_as_incomplete(status, block_count) ==
    CASE status = ServerError -> "remove"
      [] status = OK /\ block_count = 0 -> "panicked"
      [] status = OK /\ block_count > 0 -> "register"
      [] OTHER -> "info"

\* the match on the status of the Prepare reply: where run goes on.
\* FLASH_UPLOAD returns Ok(""), an unknown status returns the reply's error;
\* OK fills the queue (ArrayQueue::new panics on capacity 0) and goes on to
\* the supervisor; the two INCOMPLETE statuses ask for the missing shards.
prepare_next(status, block_count) ==
    CASE status = FLASH_UPLOAD -> "remove"
      [] status = ServerError -> "remove"
      [] status = OK /\ block_count = 0 -> "panicked"
      [] status = OK /\ block_count > 0 -> "register"
      [] OTHER -> "info"

\* the file id used after a Prepare reply that keeps the body file_id
prepared_file_id_kept(status, body_file_id) == body_file_id

\* task_file.file_id after the match on the Prepare reply: an
\* INCOMPLETE_OLD_UPLOAD reply replaces it with the meta_id of its content
prepared_file_id(status, body_file_id) ==
    IF status = INCOMPLETE_OLD_UPLOAD THEN MetaId ELSE body_file_id

\* POST PreparePartialUploadFromNodeInstance and the match on its status
UploadPrepare ==
    /\ svc_pc = "prepare"
    /\ \E status \in {OK, FLASH_UPLOAD, INCOMPLETE_UPLOAD, INCOMPLETE_OLD_UPLOAD, ServerError} :
         LET block_count == div_ceil(file_size, BlockSize) IN
         /\ prep_status' = status
         /\ file_id' = prepared_file_id(status, file_id)
         /\ result' = IF status = ServerError THEN "err" ELSE result
         /\ svc_pc' = prepare_next(status, block_count)
         /\ index_queue' = IF status = OK /\ block_count > 0
                             THEN FillQueue(block_count) ELSE index_queue
         /\ total' = IF status = OK /\ block_count > 0
                       THEN 0..(block_count - 1) ELSE total
    /\ UNCHANGED << restVars, inVars, envVars, reports, id2supervisor, map_lock, shards,
                    info_requests, file_exists, sup_pc, sup_idx, start_guard,
                    pause_token, cancel_workers, cancelled, cancel_transfer,
                    workers, completed, requests >>

\* GET PartialUploadInfo/<file_id>; the queue is filled with the shards returned
UploadInfo ==
    /\ svc_pc = "info"
    /\ info_requests' = info_requests \cup {file_id}
    /\ \E ok \in BOOLEAN :
       \E S \in SUBSET (0..(div_ceil(file_size, BlockSize) - 1)) :
         IF ok
           THEN /\ shards' = S
                /\ index_queue' = Ascending(S)
                /\ total' = S
                /\ svc_pc' = IF S = {} THEN "panicked" ELSE "register"
                /\ result' = result
           ELSE /\ S = {}
                /\ svc_pc' = "remove"
                /\ result' = "err"
                /\ UNCHANGED << shards, index_queue, total >>
    /\ UNCHANGED << restVars, inVars, envVars, reports, id2supervisor, map_lock, file_id,
                    prep_status, file_exists, sup_pc, sup_idx, start_guard,
                    pause_token, cancel_workers, cancelled, cancel_transfer,
                    workers, completed, requests >>

\* UploadFileSupervisor::new, insert into id2supervisor, supervisor.run() begins
UploadRegister ==
    /\ kind = "upload" /\ svc_pc = "register"
    /\ map_lock = "free"
    /\ id2supervisor' = id2supervisor \cup {Task}
    /\ sup_pc' = "select"
    /\ svc_pc' = "supervise"
    /\ UNCHANGED << restVars, inVars, envVars, result, reports, map_lock, file_id,
                    prep_status, shards, info_requests, file_exists, sup_idx,
                    total, index_queue, start_guard, pause_token, cancel_workers,
                    cancelled, cancel_transfer, workers, completed, requests >>

(***************************************************************************)
(* DownloadFileService::run                                                *)
(***************************************************************************)
\* Text content is written at once; otherwise Started is reported
DownloadBegin ==
    /\ kind \in {"download", "text"} /\ svc_pc = "init"
    /\ IF kind = "text"
         THEN /\ file_exists' = TRUE
              /\ svc_pc' = "remove"
              /\ reports' = reports
         ELSE /\ reports' = report("Started")
              /\ svc_pc' = "head"
              /\ file_exists' = file_exists
    /\ UNCHANGED << restVars, inVars, supVars, envVars, result, id2supervisor, map_lock,
                    file_id, prep_status, shards, info_requests >>

\* HEAD; size 0 falls back to one GET, otherwise the file is created and a
\* supervisor is built and run.  The supervisor is not put into id2supervisor.
DownloadHead ==
    /\ svc_pc = "head"
    /\ LET block_count == div_ceil(file_size, BlockSize) IN
       IF file_size = 0
         THEN /\ svc_pc' = "whole"
              /\ UNCHANGED << file_exists, index_queue, total, sup_pc >>
         ELSE /\ file_exists' = TRUE
              /\ index_queue' = FillQueue(block_count)
              /\ total' = 0..(block_count - 1)
              /\ sup_pc' = "select"
              /\ svc_pc' = "supervise"
    /\ UNCHANGED << restVars, inVars, envVars, result, reports, id2supervisor, map_lock,
                    file_id, prep_status, shards, info_requests, sup_idx,
                    start_guard, pause_token, cancel_workers, cancelled,
                    cancel_transfer, workers, completed, requests >>

\* file size unknown: the whole file in one GET
DownloadWhole ==
    /\ svc_pc = "whole"
    /\ \E ok \in BOOLEAN :
         /\ file_exists' = ok
         /\ result' = IF ok THEN "" ELSE "err"
    /\ svc_pc' = "remove"
    /\ UNCHANGED << restVars, inVars, supVars, envVars, reports, id2supervisor, map_lock,
                    file_id, prep_status, shards, info_requests >>

(***************************************************************************)
(* TaskService::start around run (both executors)                          *)
(***************************************************************************)
\* supervisor.run() returned; a cancelled download removes the partial file
SupervisorReturned ==
    /\ svc_pc = "supervise"
    /\ sup_pc \in {"exit_false", "exit_true"}
    /\ result' = IF sup_pc = "exit_true" THEN "cancel" ELSE ""
    /\ file_exists' = IF sup_pc = "exit_true" /\ kind = "download"
                        THEN FALSE ELSE file_exists
    /\ svc_pc' = "remove"
    /\ UNCHANGED << restVars, inVars, supVars, envVars, reports, id2supervisor, map_lock,
                    file_id, prep_status, shards, info_requests >>

\* self.id2supervisor.lock().await.remove(&id)
StartRemove ==
    /\ svc_pc = "remove"
    /\ map_lock = "free"
    /\ id2supervisor' = id2supervisor \ {Task}
    /\ svc_pc' = "report"
    /\ UNCHANGED << restVars, inVars, supVars, envVars, result, reports, map_lock,
                    file_id, prep_status, shards, info_requests, file_exists >>

\* the match on run's result
StartReport ==
    /\ svc_pc = "report"
    /\ reports' = CASE result = "cancel" -> reports
                    [] result = "err" -> report("Failed")
                    [] OTHER -> report("Completed")
    /\ svc_pc' = "done"
    /\ UNCHANGED << restVars, inVars, supVars, envVars, result, id2supervisor, map_lock,
                    file_id, prep_status, shards, info_requests, file_exists >>

(***************************************************************************)
(* DownloadFileSupervisor::run / UploadFileSupervisor::run                 *)
(***************************************************************************)
\* select!: the permit branch completes (the acquisition is attached to the
\* pause token, so it is polled only while the flag is clear), and then
\* self.index_queue.pop().  The pop reads nothing a step of another task could
\* change between the two with a different outcome than the same step taken
\* before the acquisition, so the two are one step.
SupAcquire ==
    /\ sup_pc = "select"
    /\ ~pause_token
    /\ start_guard > 0
    /\ start_guard' = start_guard - 1
    /\ IF index_queue # << >>
         THEN /\ sup_idx' = Head(index_queue)
              /\ index_queue' = Tail(index_queue)
              /\ sup_pc' = "popped"
         ELSE /\ sup_pc' = "empty"
              /\ UNCHANGED << sup_idx, index_queue >>
    /\ UNCHANGED << restVars, inVars, envVars, svc_pc, result, reports, id2supervisor,
                    map_lock, file_id, prep_status, shards, info_requests,
                    file_exists, total, pause_token, cancel_workers, cancelled,
                    cancel_transfer, workers, completed, requests >>

\* the worker is spawned without the permit, which is dropped at once
SupSpawnPermitDropped ==
    /\ sup_pc = "popped"
    /\ workers' = [workers EXCEPT ![FreeSlot] =
                     [block_index |-> sup_idx, cancel_token |-> cancel_workers,
                      st |-> "run"]]
    /\ start_guard' = start_guard + 1
    /\ sup_idx' = NoIndex
    /\ sup_pc' = "select"
    /\ UNCHANGED << restVars, inVars, envVars, svc_pc, result, reports, id2supervisor,
                    map_lock, file_id, prep_status, shards, info_requests,
                    file_exists, total, index_queue, pause_token,
                    cancel_workers, cancelled, cancel_transfer, completed,
                    requests >>

\* the worker gets the permit and a clone of the current worker token, and is spawned
SupSpawn ==
    /\ sup_pc = "popped"
    /\ workers' = [workers EXCEPT ![FreeSlot] =
                     [block_index |-> sup_idx, cancel_token |-> cancel_workers,
                      st |-> "run"]]
    /\ sup_idx' = NoIndex
    /\ sup_pc' = "select"
    /\ UNCHANGED << restVars, inVars, envVars, svc_pc, result, reports, id2supervisor,
                    map_lock, file_id, prep_status, shards, info_requests,
                    file_exists, total, index_queue, start_guard, pause_token,
                    cancel_workers, cancelled, cancel_transfer, completed,
                    requests >>

\* the queue was empty: available_permits() + 1 < MAX_WORKER_COUNT ?
AllWorkersDone(available_permits) == ~(available_permits + 1 < MAX_WORKER_COUNT)

SupCheck ==
    /\ sup_pc = "empty"
    /\ IF AllWorkersDone(start_guard)
         THEN /\ sup_pc' = "exit_false"
              /\ start_guard' = start_guard + 1      \* the permit is dropped
         ELSE /\ sup_pc' = "sleep"
              /\ start_guard' = start_guard
    /\ UNCHANGED << restVars, inVars, envVars, svc_pc, result, reports, id2supervisor,
                    map_lock, file_id, prep_status, shards, info_requests,
                    file_exists, sup_idx, total, index_queue, pause_token,
                    cancel_workers, cancelled, cancel_transfer, workers,
                    completed, requests >>

\* sleep(1 s) is over; the permit is dropped at the end of the branch
SupSleepDone ==
    /\ sup_pc = "sleep"
    /\ start_guard' = start_guard + 1
    /\ sup_pc' = "select"
    /\ UNCHANGED << restVars, inVars, envVars, svc_pc, result, reports, id2supervisor,
                    map_lock, file_id, prep_status, shards, info_requests,
                    file_exists, sup_idx, total, index_queue, pause_token,
                    cancel_workers, cancelled, cancel_transfer, workers,
                    completed, requests >>

\* select!: a cancel branch that waits, like the permit branch, for the pause
\* flag to be clear
SupCancelBranchIfNotPaused ==
    /\ sup_pc = "select"
    /\ ~pause_token
    /\ cancel_transfer
    /\ sup_pc' = "cancelling"
    /\ UNCHANGED << restVars, inVars, envVars, svc_pc, result, reports, id2supervisor,
                    map_lock, file_id, prep_status, shards, info_requests,
                    file_exists, sup_idx, total, index_queue, start_guard,
                    pause_token, cancel_workers, cancelled, cancel_transfer,
                    workers, completed, requests >>

\* select!: the cancel branch completes; the token is not attached to the
\* pause token, so the branch is polled whether the flag is set or not
SupCancelBranch ==
    /\ sup_pc = "select"
    /\ cancel_transfer
    /\ sup_pc' = "cancelling"
    /\ UNCHANGED << restVars, inVars, envVars, svc_pc, result, reports, id2supervisor,
                    map_lock, file_id, prep_status, shards, info_requests,
                    file_exists, sup_idx, total, index_queue, start_guard,
                    pause_token, cancel_workers, cancelled, cancel_transfer,
                    workers, completed, requests >>

\* self.cancel_workers.lock().await.cancel(); break true
SupCancelWorkers ==
    /\ sup_pc = "cancelling"
    /\ cancelled' = cancelled \cup {cancel_workers}
    /\ sup_pc' = "exit_true"
    /\ UNCHANGED << restVars, inVars, envVars, svc_pc, result, reports, id2supervisor,
                    map_lock, file_id, prep_status, shards, info_requests,
                    file_exists, sup_idx, total, index_queue, start_guard,
                    pause_token, cancel_workers, cancel_transfer, workers,
                    completed, requests >>

SupNext ==
    \/ SupAcquire
    \/ SupSpawn
    \/ SupCheck
    \/ SupSleepDone
    \/ SupCancelBranch
    \/ SupCancelWorkers

(***************************************************************************)
(* DownloadFileWorker / UploadFileWorker                                   *)
(***************************************************************************)
\* The select! of Worker::start, given how far run() got ("pending", "ok",
\* "err") and whether the worker's cancel token is cancelled.  The first
\* branch carries the pattern Err(e): when run() returns Ok the branch is
\* disabled and the select goes on waiting for the cancel branch; the else
\* branch needs every branch disabled, and the cancel branch never is.
start_select(run, token_cancelled) ==
    CASE run = "err" -> "revert"
      [] token_cancelled -> "revert"
      [] OTHER -> "pending"

TokenCancelled(w) == workers[w].cancel_token \in cancelled

\* self.supervisor.upgrade() of worker w succeeds: an Arc of the supervisor is
\* held by someone else.  The holders are the run future of the loop (until
\* start goes on after it), the id->supervisor map, a cancel(id) that took
\* the Arc out of the map and has not returned, and the run future of a
\* worker that has been polled and is pending.  The worker's own run future
\* is dropped by its select before the branch that reverts is executed.
SupervisorHeld(w) ==
    \/ svc_pc = "supervise"
    \/ Task \in id2supervisor
    \/ cancel_pc = "report"
    \/ \E v \in Slots \ {w} : workers[v].st = "sent"

\* run() sends its chunk request (download: ranged GET; upload: multipart POST)
WorkerIssue(w) ==
    /\ workers[w].st = "run"
    /\ start_select("pending", TokenCancelled(w)) = "pending"
    /\ IF SupervisorHeld(w)
         THEN /\ requests' = requests \cup
                   {[nth |-> workers[w].block_index, file_metadata_id |-> file_id]}
              /\ workers' = [workers EXCEPT ![w].st = "sent"]
         ELSE \* self.supervisor.upgrade().unwrap() panics
              /\ requests' = requests
              /\ workers' = [workers EXCEPT ![w].st = "run_panicked"]
    /\ UNCHANGED << restVars, inVars, envVars, svc_pc, result, reports, id2supervisor,
                    map_lock, file_id, prep_status, shards, info_requests,
                    file_exists, sup_pc, sup_idx, total, index_queue,
                    start_guard, pause_token, cancel_workers, cancelled,
                    cancel_transfer, completed >>

\* run() returns Ok(()): the chunk was transferred
WorkerSucceed(w) ==
    /\ workers[w].st = "sent"
    /\ start_select("pending", TokenCancelled(w)) = "pending"
    /\ completed' = completed \cup {workers[w].block_index}
    /\ IF start_select("ok", TokenCancelled(w)) = "pending"
         THEN /\ workers' = [workers EXCEPT ![w].st = "ok"]
              /\ start_guard' = start_guard
         ELSE /\ workers' = [workers EXCEPT ![w] = NoWorker]
              /\ start_guard' = start_guard + 1
    /\ UNCHANGED << restVars, inVars, envVars, svc_pc, result, reports, id2supervisor,
                    map_lock, file_id, prep_status, shards, info_requests,
                    file_exists, sup_pc, sup_idx, total, index_queue,
                    pause_token, cancel_workers, cancelled, cancel_transfer,
                    requests >>

\* self.revert_block_index(): the index is pushed back onto the queue
revert_block_index(w) ==
    IF SupervisorHeld(w)
      THEN /\ index_queue' = Append(index_queue, workers[w].block_index)
           /\ workers' = [workers EXCEPT ![w].st = "reverted"]
      ELSE \* self.supervisor.upgrade().unwrap() panics
           /\ index_queue' = index_queue
           /\ workers' = [workers EXCEPT ![w].st = "revert_panicked"]

\* run() returns Err (file read, connection, HTTP status): revert
WorkerFail(w) ==
    /\ workers[w].st \in {"run", "sent"}
    /\ start_select("pending", TokenCancelled(w)) = "pending"
    /\ events_left > 0
    /\ events_left' = events_left - 1
    /\ start_select("err", TokenCancelled(w)) = "revert"
    /\ revert_block_index(w)
    /\ UNCHANGED << restVars, inVars, svc_pc, result, reports, id2supervisor, map_lock,
                    file_id, prep_status, shards, info_requests, file_exists,
                    sup_pc, sup_idx, total, start_guard, pause_token,
                    cancel_workers, cancelled, cancel_transfer, completed,
                    requests, pause_pc, resume_pc, cancel_pc, missed >>

\* the cancel branch of the select completes: revert
WorkerCancelled(w) ==
    /\ workers[w].st \in {"run", "sent", "ok"}
    /\ start_select(IF workers[w].st = "ok" THEN "ok" ELSE "pending",
                    TokenCancelled(w)) = "revert"
    /\ revert_block_index(w)
    /\ UNCHANGED << restVars, inVars, envVars, svc_pc, result, reports, id2supervisor,
                    map_lock, file_id, prep_status, shards, info_requests,
                    file_exists, sup_pc, sup_idx, total, start_guard,
                    pause_token, cancel_workers, cancelled, cancel_transfer,
                    completed, requests >>

\* the spawned task ends: the worker and its permit are dropped
WorkerExit(w) ==
    /\ workers[w].st \in {"reverted", "run_panicked", "revert_panicked"}
    /\ workers' = [workers EXCEPT ![w] = NoWorker]
    /\ start_guard' = start_guard + 1
    /\ UNCHANGED << restVars, inVars, envVars, svc_pc, result, reports, id2supervisor,
                    map_lock, file_id, prep_status, shards, info_requests,
                    file_exists, sup_pc, sup_idx, total, index_queue,
                    pause_token, cancel_workers, cancelled, cancel_transfer,
                    completed, requests >>

WorkerNext ==
    \E w \in Slots :
        \/ WorkerIssue(w)
        \/ WorkerSucceed(w)
        \/ WorkerFail(w)
        \/ WorkerCancelled(w)
        \/ WorkerExit(w)

(***************************************************************************)
(* TaskService::pause / resume / cancel (both executors)                   *)
(***************************************************************************)
\* .context("... supervisor not found")?  The call fails; it is recorded when
\* the supervisor loop of the task was running at that moment.
Missed(call) ==
    IF svc_pc = "supervise" /\ sup_pc \notin {"exit_false", "exit_true"}
      THEN missed \cup {call} ELSE missed

\* lock id2supervisor, look the supervisor up, supervisor.pause_token.pause()
PauseBegin ==
    /\ pause_pc = "idle"
    /\ events_left > 0
    /\ map_lock = "free"
    /\ events_left' = events_left - 1
    /\ IF Task \in id2supervisor
         THEN /\ map_lock' = "pause"
              /\ pause_token' = TRUE
              /\ pause_pc' = "flagged"
              /\ missed' = missed
         ELSE /\ missed' = Missed("pause")
              /\ UNCHANGED << map_lock, pause_token, pause_pc >>
    /\ UNCHANGED << restVars, inVars, svc_pc, result, reports, id2supervisor, file_id,
                    prep_status, shards, info_requests, file_exists, sup_pc,
                    sup_idx, total, index_queue, start_guard, cancel_workers,
                    cancelled, cancel_transfer, workers, completed, requests,
                    resume_pc, cancel_pc >>

\* under the cancel_workers mutex: cancel the token, replace it by a new one;
\* both guards are dropped at the end of the block
PauseCancelWorkers ==
    /\ pause_pc = "flagged"
    /\ cancelled' = cancelled \cup {cancel_workers}
    /\ cancel_workers' = cancel_workers + 1
    /\ map_lock' = "free"
    /\ pause_pc' = "report"
    /\ UNCHANGED << restVars, inVars, svc_pc, result, reports, id2supervisor, file_id,
                    prep_status, shards, info_requests, file_exists, sup_pc,
                    sup_idx, total, index_queue, start_guard, pause_token,
                    cancel_transfer, workers, completed, requests, resume_pc,
                    cancel_pc, events_left,
                    missed >>

\* report Paused and return
PauseReport ==
    /\ pause_pc = "report"
    /\ reports' = report("Paused")
    /\ pause_pc' = "idle"
    /\ UNCHANGED << restVars, inVars, supVars, svc_pc, result, id2supervisor, map_lock,
                    file_id, prep_status, shards, info_requests, file_exists,
                    resume_pc, cancel_pc, events_left, missed >>

\* lock id2supervisor, look the supervisor up, pause_token.resume()
ResumeBegin ==
    /\ resume_pc = "idle"
    /\ events_left > 0
    /\ map_lock = "free"
    /\ events_left' = events_left - 1
    /\ IF Task \in id2supervisor
         THEN /\ pause_token' = FALSE
              /\ resume_pc' = "report"
              /\ missed' = missed
         ELSE /\ missed' = Missed("resume")
              /\ UNCHANGED << pause_token, resume_pc >>
    /\ UNCHANGED << restVars, inVars, svc_pc, result, reports, id2supervisor, map_lock,
                    file_id, prep_status, shards, info_requests, file_exists,
                    sup_pc, sup_idx, total, index_queue, start_guard,
                    cancel_workers, cancelled, cancel_transfer, workers,
                    completed, requests, pause_pc, cancel_pc >>

\* report Resumed and return
ResumeReport ==
    /\ resume_pc = "report"
    /\ reports' = report("Resumed")
    /\ resume_pc' = "idle"
    /\ UNCHANGED << restVars, inVars, supVars, svc_pc, result, id2supervisor, map_lock,
                    file_id, prep_status, shards, info_requests, file_exists,
                    pause_pc, cancel_pc, events_left,
                    missed >>

\* lock id2supervisor, remove the supervisor, cancel its
\* cancel_download / cancel_upload token
CancelBegin ==
    /\ cancel_pc = "idle"
    /\ events_left > 0
    /\ map_lock = "free"
    /\ events_left' = events_left - 1
    /\ IF Task \in id2supervisor
         THEN /\ id2supervisor' = id2supervisor \ {Task}
              /\ cancel_transfer' = TRUE
              /\ cancel_pc' = "report"
                        /\ missed' = missed
         ELSE /\ missed' = Missed("cancel")
              /\ UNCHANGED << id2supervisor, cancel_transfer, cancel_pc >>
    /\ UNCHANGED << restVars, inVars, svc_pc, result, reports, map_lock, file_id,
                    prep_status, shards, info_requests, file_exists, sup_pc,
                    sup_idx, total, index_queue, start_guard, pause_token,
                    cancel_workers, cancelled, workers, completed, requests,
                    pause_pc, resume_pc >>

\* report Cancelled and return
CancelReport ==
    /\ cancel_pc = "report"
    /\ reports' = report("Cancelled")
    /\ cancel_pc' = "idle"
    /\ UNCHANGED << restVars, inVars, supVars, svc_pc, result, id2supervisor, map_lock,
                    file_id, prep_status, shards, info_requests, file_exists,
                    pause_pc, resume_pc, events_left,
                    missed >>

SvcNext ==
    \/ UploadReportStarted
    \/ UploadOpen
    \/ UploadPrepare
    \/ UploadInfo
    \/ UploadRegister
    \/ DownloadBegin
    \/ DownloadHead
    \/ DownloadWhole
    \/ SupervisorReturned
    \/ StartRemove
    \/ StartReport

CallNext ==
    \/ PauseBegin
    \/ PauseCancelWorkers
    \/ PauseReport
    \/ ResumeBegin
    \/ ResumeReport
    \/ CancelBegin
    \/ CancelReport

Next == SvcNext \/ SupNext \/ WorkerNext \/ CallNext

Spec == Init /\ [][Next]_vars

(***************************************************************************)
(* The same program under the scheduling the runtime guarantees: a task    *)
(* that can run is eventually polled (the executor, the supervisor loop    *)
(* and the workers are tokio tasks; the lifecycle calls are inputs and     *)
(* carry no fairness).                                                     *)
(***************************************************************************)
FairSpec ==
    /\ Spec
    /\ WF_vars(SvcNext)
    /\ WF_vars(SupNext)
    /\ WF_vars(WorkerNext)

(***************************************************************************)
(* A second starting point: a download of SatBlocks blocks in which the    *)
(* first MAX_WORKER_COUNT - 1 blocks were transferred (their workers are   *)
(* parked in the select of Worker::start and still hold their permits),    *)
(* one permit is free and the last two indices are in the queue.  The      *)
(* program reaches this state from Init by DownloadBegin, DownloadHead and *)
(* then SupAcquire, SupSpawn, WorkerIssue, WorkerSucceed once per block.   *)
(***************************************************************************)
SatInit ==
    /\ kind = "download"
    /\ file_size = SatFileSize
    /\ file_present = FALSE
    /\ optional = FALSE
    /\ svc_pc = "supervise"
    /\ result = ""
    /\ reports = [ st \in TaskStatus |-> IF st = "Started" THEN 1 ELSE 0 ]
    /\ id2supervisor = {}
    /\ map_lock = "free"
    /\ file_id = BodyFileId
    /\ prep_status = NoStatus
    /\ shards = {}
    /\ info_requests = {}
    /\ requests = { [nth |-> i, file_metadata_id |-> BodyFileId] :
                      i \in 0..(MAX_WORKER_COUNT - 2) }
    /\ file_exists = TRUE
    /\ sup_pc = "select"
    /\ sup_idx = NoIndex
    /\ total = 0..(SatBlocks - 1)
    /\ index_queue = << SatBlocks - 2, SatBlocks - 1 >>
    /\ start_guard = 1
    /\ pause_token = FALSE
    /\ cancel_workers = 0
    /\ cancelled = {}
    /\ cancel_transfer = FALSE
    /\ workers = [ w \in Slots |->
                     IF w < MAX_WORKER_COUNT
                       THEN [block_index |-> w - 1, cancel_token |-> 0, st |-> "ok"]
                       ELSE NoWorker ]
    /\ completed = 0..(MAX_WORKER_COUNT - 2)
    /\ pause_pc = "idle"
    /\ resume_pc = "idle"
    /\ cancel_pc = "idle"
    /\ events_left = MaxEvents
    /\ missed = {}
    /\ AuthStartWith({FALSE})
    /\ JobIdle /\ PauseIdle /\ DeployIdle /\ UnitsIdle

SatSpec == (Init \/ SatInit) /\ [][Next]_vars

(***************************************************************************)
(* The transfer against a file storage that rejects every chunk request    *)
(* with an error the retry layer does not retry: run() of every worker     *)
(* returns Err, however many workers are spawned.  No lifecycle call is    *)
(* issued.                                                                 *)
(***************************************************************************)
\* run() returns Err: the index is pushed back, start returns Err and the
\* spawned task ends, dropping the worker and its permit.  No bound on how
\* often this happens.  Of the interleavings only those are kept in which the
\* task ends before another task takes a step: this specification serves to
\* exhibit behaviours of the program, and each of its behaviours is one.
WorkerFailAlways(w) ==
    /\ workers[w].st \in {"run", "sent"}
    /\ start_select("pending", TokenCancelled(w)) = "pending"
    /\ start_select("err", TokenCancelled(w)) = "revert"
    /\ index_queue' = IF SupervisorHeld(w)
                        THEN Append(index_queue, workers[w].block_index)
                        ELSE index_queue
    /\ workers' = [workers EXCEPT ![w] = NoWorker]
    /\ start_guard' = start_guard + 1
    /\ UNCHANGED << restVars, inVars, envVars, svc_pc, result, reports, id2supervisor,
                    map_lock, file_id, prep_status, shards, info_requests,
                    file_exists, sup_pc, sup_idx, total,
                    pause_token, cancel_workers, cancelled, cancel_transfer,
                    completed, requests >>

FailingWorkerNext ==
    \E w \in Slots :
        \/ WorkerIssue(w)
        \/ WorkerFailAlways(w)

\* the supervisor loop without a cancel to receive
FailingSupNext ==
    \/ SupAcquire
    \/ SupSpawn
    \/ SupCheck
    \/ SupSleepDone

FailNext == SvcNext \/ FailingSupNext \/ FailingWorkerNext

FailInit ==
    InitWith(0..MaxFileSize, 0) /\ AuthStartWith({FALSE}) /\ JobIdle /\ PauseIdle /\ DeployIdle /\ UnitsIdle

\* the scheduling of FairSpec
FailSpec ==
    /\ FailInit /\ [][FailNext]_vars
    /\ WF_vars(SvcNext)
    /\ WF_vars(FailingSupNext)
    /\ WF_vars(FailingWorkerNext)

(***************************************************************************)
(* AuthMiddleware::handle and refresh, below the retry layer.  Each        *)
(* request runs in the task that sends it; the cell is shared.             *)
(***************************************************************************)
\* parse found no W3Authenticate (header absent, or not of the three pairs)
NoW3Auth == [some |-> FALSE, error |-> "", error_description |-> ""]

\* the values of WWW-Authenticate after parse: None, or error and description
W3Auth ==
    {NoW3Auth} \cup
    [some : {TRUE},
     error : {"InvalidRequest", "InvalidToken", "InsufficientScope"},
     error_description : {EXPIRED_SIGNATURE, "InvalidSignature"}]

\* the responses the middleware tells apart
Responses == [status : {"OK"}, w3auth : {NoW3Auth}]
                 \cup [status : {"UNAUTHORIZED"}, w3auth : W3Auth]

\* the branch handle takes on a response
handle(resp) ==
    IF resp.status = "UNAUTHORIZED" /\ resp.w3auth.some
       /\ resp.w3auth.error = "InvalidToken"
      THEN IF resp.w3auth.error_description # EXPIRED_SIGNATURE
             THEN "panic"
             ELSE "refresh"
      ELSE "return"

\* RetryOnError::handle on Ok(resp): every 401 is transient
RetryOnError(status) == status = "UNAUTHORIZED"

\* the retry layer on a transient result: send again while the policy allows
retry_or_result(transient, n_past_retries) ==
    IF transient /\ n_past_retries < MaxRetries THEN "retry" ELSE "done"

\* a cell written with the access token only
InnerStateAccessOnly(cell, grant_info) ==
    [access_token |-> grant_info.access_token,
     refresh_token |-> cell.refresh_token]

\* the InnerState refresh stores: both tokens of the grant, in one Arc
InnerState(cell, grant_info) ==
    [access_token |-> grant_info.access_token,
     refresh_token |-> grant_info.refresh_token]

\* the state of the file transfer, which the middleware does not touch
transferVars == << inVars, envVars, supVars, svc_pc, result, reports,
                   id2supervisor, map_lock, file_id, prep_status, shards,
                   info_requests, file_exists >>

\* what the actions of one small service leave alone
notRangeVars == << transferVars, authVars, jobVars, pauseVars, deployVars, 
                   collectVars, retryVars, pbsVars, timerVars, 
                   dispatchVars, lockVars >>

notCollectVars == << transferVars, authVars, jobVars, pauseVars, 
                     deployVars, rangeVars, retryVars, pbsVars, timerVars, 
                     dispatchVars, lockVars >>

notRetryVars == << transferVars, authVars, jobVars, pauseVars, deployVars, 
                   rangeVars, collectVars, pbsVars, timerVars, 
                   dispatchVars, lockVars >>

notPbsVars == << transferVars, authVars, jobVars, pauseVars, deployVars, 
                 rangeVars, collectVars, retryVars, timerVars, 
                 dispatchVars, lockVars >>

notTimerVars == << transferVars, authVars, jobVars, pauseVars, deployVars, 
                   rangeVars, collectVars, retryVars, pbsVars, 
                   dispatchVars, lockVars >>

notDispatchVars == << transferVars, authVars, jobVars, pauseVars, 
                      deployVars, rangeVars, collectVars, retryVars, 
                      pbsVars, timerVars, lockVars >>

notLockVars == << transferVars, authVars, jobVars, pauseVars, deployVars, 
                  rangeVars, collectVars, retryVars, pbsVars, timerVars, 
                  dispatchVars >>

\* some request has taken the fatal branch
Fatal == \E r \in Reqs : req[r].pc = "panicked"

\* handle loads the cell and sets the Authorization header; next.run sends
AuthInject(r) ==
    /\ proc = "up"
    /\ req[r].pc \in {"new", "retry"}
    /\ req' = [req EXCEPT ![r].pc = "sent",
                          ![r].hdr = token.access_token,
                          ![r].tries = IF req[r].pc = "retry" THEN @ + 1 ELSE @]
    /\ after_fatal' = IF Fatal THEN after_fatal \cup {"request"} ELSE after_fatal
    /\ UNCHANGED << transferVars, jobVars, pauseVars, deployVars, unitVars, token, grants, proc, panic_abort >>

\* the response arrives: return it, start a refresh, or panic
AuthResponse(r) ==
    /\ proc = "up"
    /\ req[r].pc = "sent"
    /\ \E resp \in Responses :
         CASE handle(resp) = "return" ->
                /\ req' = [req EXCEPT ![r].pc =
                             retry_or_result(RetryOnError(resp.status), req[r].tries),
                                      ![r].hdr = NoToken]
                /\ UNCHANGED << proc, after_fatal >>
           [] handle(resp) = "refresh" ->
                /\ req' = [req EXCEPT ![r].pc = "refresh",
                                      ![r].hdr = NoToken,
                                      ![r].rtok = token.refresh_token]
                /\ after_fatal' = IF Fatal THEN after_fatal \cup {"refresh"}
                                           ELSE after_fatal
                /\ proc' = proc
           [] handle(resp) = "panic" ->
                /\ req' = [req EXCEPT ![r].pc = "panicked", ![r].hdr = NoToken]
                /\ proc' = IF panic_abort THEN "aborted" ELSE "up"
                /\ after_fatal' = after_fatal
    /\ UNCHANGED << transferVars, jobVars, pauseVars, deployVars, unitVars, token, grants, panic_abort >>

\* keycloak::refresh_token answers: a new pair, or an error that handle
\* passes up to the retry layer
AuthGrant(r) ==
    /\ proc = "up"
    /\ req[r].pc = "refresh"
    /\ \/ /\ grants < MaxGrants
          /\ grants' = grants + 1
          /\ req' = [req EXCEPT ![r].pc = "store", ![r].grant = grants + 1]
       \/ /\ \E transient \in BOOLEAN :
               req' = [req EXCEPT ![r].pc = retry_or_result(transient, req[r].tries),
                                  ![r].rtok = NoToken]
          /\ grants' = grants
    /\ UNCHANGED << transferVars, jobVars, pauseVars, deployVars, unitVars, token, proc, panic_abort, after_fatal >>

\* self.token.store(..), then Ok(resp) goes up with its 401
AuthStore(r) ==
    /\ proc = "up"
    /\ req[r].pc = "store"
    /\ token' = InnerState(token, GrantInfo(req[r].grant))
    /\ req' = [req EXCEPT ![r].pc = retry_or_result(RetryOnError("UNAUTHORIZED"),
                                                    req[r].tries),
                          ![r].rtok = NoToken, ![r].grant = NoToken]
    /\ UNCHANGED << transferVars, jobVars, pauseVars, deployVars, unitVars, grants, proc, panic_abort, after_fatal >>

AuthNext ==
    \E r \in Reqs :
        \/ AuthInject(r)
        \/ AuthResponse(r)
        \/ AuthGrant(r)
        \/ AuthStore(r)

\* no transfer is under way: the task was a text download with no calls
TransferIdle == InitWith({0}, 0) /\ kind = "text"

AuthInit == TransferIdle /\ AuthStartWith(BOOLEAN) /\ JobIdle /\ PauseIdle /\ DeployIdle /\ UnitsIdle

AuthSpec == AuthInit /\ [][AuthNext]_vars

(***************************************************************************)
(* JobServiceImpl: start, the periodic refresh_all, pause / resume /       *)
(* cancel, and refresh.  start and the calls run in tasks spawned per      *)
(* command, refresh_all in the timer task, so a refresh of the tick and a  *)
(* call of the same task id interleave at every await.                     *)
(***************************************************************************)
\* the statuses bjobs prints
LsfStatus == {"PEND", "RUN", "EXITING", "DONE", "EXIT"}

\* the match of get_lsf_job on item.state
lsf_state(raw) ==
    CASE raw = "EXIT" -> "Failed"
      [] raw = "DONE" -> "Completed"
      [] raw = "RUN|EXITING" -> "Running"
      [] OTHER -> "Unknown"

\* the answers of JobScheduler::get_job: with LSF the decoded bjobs status,
\* with Slurm any JobState (its decoder yields each of them)
get_job(sched) ==
    IF sched = "lsf"
      THEN { [raw |-> r, state |-> lsf_state(r)] : r \in LsfStatus }
      ELSE { [raw |-> st, state |-> st] : st \in JobState }

\* a start that stores the job whatever its state
start_match_always_insert(state) ==
    CASE state = "Queuing" -> [insert |-> TRUE, report |-> "Queued"]
      [] state \in {"Running", "Completing"} -> [insert |-> TRUE, report |-> "Started"]
      [] state \in {"Failed", "Unknown"} -> [insert |-> TRUE, report |-> "Failed"]
      [] state = "Suspended" -> [insert |-> TRUE, report |-> "Paused"]
      [] state = "Completed" -> [insert |-> TRUE, report |-> "Completed"]

\* the match of start on the state first polled
start_match(state) ==
    CASE state = "Queuing" -> [insert |-> TRUE, report |-> "Queued"]
      [] state \in {"Running", "Completing"} -> [insert |-> TRUE, report |-> "Started"]
      [] state \in {"Failed", "Unknown"} -> [insert |-> FALSE, report |-> "Failed"]
      [] state = "Suspended" -> [insert |-> TRUE, report |-> "Paused"]
      [] state = "Completed" -> [insert |-> FALSE, report |-> "Completed"]

\* a refresh that reports a transition without storing the new job
refresh_match_no_insert(pre_state, state) ==
    CASE state = "Queuing" -> [op |-> "keep", report |-> "none"]
      [] state \in {"Running", "Completing"} /\ pre_state = "Queuing" ->
            [op |-> "keep", report |-> "Started"]
      [] state \in {"Running", "Completing"} /\ pre_state = "Suspended" ->
            [op |-> "keep", report |-> "Resumed"]
      [] state \in {"Running", "Completing"}
            /\ pre_state \notin {"Queuing", "Suspended"} ->
            [op |-> "keep", report |-> "none"]
      [] state = "Suspended" /\ pre_state # "Suspended" ->
            [op |-> "keep", report |-> "Paused"]
      [] state = "Suspended" /\ pre_state = "Suspended" ->
            [op |-> "keep", report |-> "none"]
      [] state \in {"Failed", "Unknown"} -> [op |-> "remove", report |-> "Failed"]
      [] state = "Completed" -> [op |-> "remove", report |-> "Completed"]

\* the match of refresh on the state polled, given the state stored
refresh_match(pre_state, state) ==
    CASE state = "Queuing" -> [op |-> "keep", report |-> "none"]
      [] state \in {"Running", "Completing"} /\ pre_state = "Queuing" ->
            [op |-> "insert", report |-> "Started"]
      [] state \in {"Running", "Completing"} /\ pre_state = "Suspended" ->
            [op |-> "insert", report |-> "Resumed"]
      [] state \in {"Running", "Completing"}
            /\ pre_state \notin {"Queuing", "Suspended"} ->
            [op |-> "keep", report |-> "none"]
      [] state = "Suspended" /\ pre_state # "Suspended" ->
            [op |-> "insert", report |-> "Paused"]
      [] state = "Suspended" /\ pre_state = "Suspended" ->
            [op |-> "keep", report |-> "none"]
      [] state \in {"Failed", "Unknown"} -> [op |-> "remove", report |-> "Failed"]
      [] state = "Completed" -> [op |-> "remove", report |-> "Completed"]

\* JobResourcesReporter::report / report_msg / report_resources
job_report(status, by) ==
    IF status = "none" THEN jreports
                       ELSE [jreports EXCEPT ![status, by] = @ + 1]

\* what the job service leaves alone
notJobVars == << transferVars, authVars, pauseVars, deployVars, unitVars >>

\* start: the software of the use case is looked up
JobStartPrepare ==
    /\ js_pc = "init"
    /\ \E software \in {"loaded", "not_found", "err"} :
         /\ js_pc' = CASE software = "loaded" -> "submit"
                       [] software = "not_found" -> "done"
                       [] software = "err" -> "err_lookup"
         /\ jreports' = IF software = "not_found"
                          THEN job_report("Failed", "start") ELSE jreports
    /\ UNCHANGED << notJobVars, scheduler, repo, rf, call_pc, call_op, call_errs,
                    job_events_left, prev_poll, last_poll >>

\* start: submit_job_script(info).await?
JobStartSubmit ==
    /\ js_pc = "submit"
    /\ \E ok \in BOOLEAN : js_pc' = IF ok THEN "poll" ELSE "err_submit"
    /\ UNCHANGED << notJobVars, scheduler, repo, rf, call_pc, call_op, call_errs,
                    job_events_left, jreports, prev_poll, last_poll >>

\* start: get_job(&job_id).await?, the match on job.state and the report
JobStartPoll ==
    /\ js_pc = "poll"
    /\ \/ /\ js_pc' = "err_poll"
          /\ UNCHANGED << repo, jreports, prev_poll, last_poll >>
       \/ \E job \in get_job(scheduler) :
            LET m == start_match(job.state) IN
            /\ repo' = IF m.insert THEN job.state ELSE repo
            /\ jreports' = job_report(m.report, "start")
            /\ prev_poll' = last_poll
            /\ last_poll' = [by |-> "start", pre |-> "none", raw |-> job.raw,
                             state |-> job.state, report |-> m.report]
            /\ js_pc' = "done"
    /\ UNCHANGED << notJobVars, scheduler, rf, call_pc, call_op, call_errs,
                    job_events_left >>

\* refresh_all: the ids of the map are collected; refresh(id) is next
TickBegin ==
    /\ rf["tick"].pc = "idle"
    /\ job_events_left > 0
    /\ repo # "none"
    /\ job_events_left' = job_events_left - 1
    /\ rf' = [rf EXCEPT !["tick"].pc = "get"]
    /\ UNCHANGED << notJobVars, scheduler, repo, js_pc, call_pc, call_op,
                    call_errs, jreports, prev_poll, last_poll >>

\* refresh: repo.get(&id) gives the job id and pre_state, or "Job not found"
RefreshGet(p) ==
    /\ rf[p].pc = "get"
    /\ rf' = IF repo = "none"
               THEN [rf EXCEPT ![p] = NoRefresh]
               ELSE [rf EXCEPT ![p] = [pc |-> "poll", pre_state |-> repo]]
    /\ call_errs' = IF repo = "none" /\ p = "call"
                      THEN call_errs \cup {[op |-> call_op, err |-> "Job not found"]}
                      ELSE call_errs
    /\ UNCHANGED << notJobVars, scheduler, repo, js_pc, call_pc, call_op,
                    job_events_left, jreports, prev_poll, last_poll >>

\* refresh: get_job(&job_id).await?, the match on job.state and the report
RefreshPoll(p) ==
    /\ rf[p].pc = "poll"
    /\ \/ /\ call_errs' = IF p = "call"
                            THEN call_errs \cup {[op |-> call_op, err |-> "get_job"]}
                            ELSE call_errs
          /\ UNCHANGED << repo, jreports, prev_poll, last_poll >>
       \/ \E job \in get_job(scheduler) :
            LET m == refresh_match(rf[p].pre_state, job.state) IN
            /\ repo' = CASE m.op = "insert" -> job.state
                         [] m.op = "remove" -> "none"
                         [] m.op = "keep" -> repo
            /\ jreports' = job_report(m.report, "refresh")
            /\ prev_poll' = last_poll
            /\ last_poll' = [by |-> "refresh", pre |-> rf[p].pre_state,
                             raw |-> job.raw,
                             state |-> job.state, report |-> m.report]
            /\ call_errs' = call_errs
    /\ rf' = [rf EXCEPT ![p] = NoRefresh]
    /\ UNCHANGED << notJobVars, scheduler, js_pc, call_pc, call_op,
                    job_events_left >>

\* pause / resume: repo.get(&id); cancel: repo.remove(&id)
JobCallBegin(op) ==
    /\ call_pc = "idle" /\ rf["call"].pc = "idle"
    /\ js_pc \in {"done", "err_lookup", "err_submit", "err_poll"}
    /\ job_events_left > 0
    /\ job_events_left' = job_events_left - 1
    /\ call_op' = op
    /\ IF repo = "none"
         THEN /\ call_errs' = call_errs \cup {[op |-> op, err |-> "Job not found"]}
              /\ UNCHANGED << repo, call_pc >>
         ELSE /\ call_pc' = "scheduler"
              /\ repo' = IF op = "cancel" THEN "none" ELSE repo
              /\ call_errs' = call_errs
    /\ UNCHANGED << notJobVars, scheduler, js_pc, rf, jreports, prev_poll,
                    last_poll >>

\* the outcomes of pause_job / continue_job / delete_job
scheduler_call(sched) ==
    IF sched = "lsf" THEN {"unimplemented!"} ELSE {"ok", "exit status"}

\* pause_job / continue_job / delete_job answers; then refresh or Cancelled
JobCallScheduler ==
    /\ call_pc = "scheduler"
    /\ \E out \in scheduler_call(scheduler) :
         /\ call_errs' = IF out = "ok" THEN call_errs
                           ELSE call_errs \cup {[op |-> call_op, err |-> out]}
         /\ rf' = IF out = "ok" /\ call_op # "cancel"
                    THEN [rf EXCEPT !["call"].pc = "get"] ELSE rf
         /\ jreports' = IF out = "ok" /\ call_op = "cancel"
                          THEN job_report("Cancelled", "call") ELSE jreports
    /\ call_pc' = "idle"
    /\ UNCHANGED << notJobVars, scheduler, repo, js_pc, call_op,
                    job_events_left, prev_poll, last_poll >>

JobNext ==
    \/ JobStartPrepare
    \/ JobStartSubmit
    \/ JobStartPoll
    \/ TickBegin
    \/ \E p \in Refreshers : RefreshGet(p) \/ RefreshPoll(p)
    \/ \E op \in {"pause", "resume", "cancel"} : JobCallBegin(op)
    \/ JobCallScheduler

JobInit ==
    /\ TransferIdle
    /\ AuthStartWith({FALSE})
    /\ JobStartWith({"slurm", "lsf"}, MaxJobEvents)
    /\ PauseIdle
    /\ DeployIdle
    /\ UnitsIdle

JobSpec == JobInit /\ [][JobNext]_vars

\* a call is being handled, its refresh included
CallActive == call_pc # "idle" \/ rf["call"].pc # "idle"

\* the same program when no call arrives while the tick refreshes and no
\* tick fires while a call is handled: the refreshes come one after another
JobSeqNext == JobNext /\ ~(CallActive /\ rf["tick"].pc # "idle")'

JobSeqSpec == JobInit /\ [][JobSeqNext]_vars

(***************************************************************************)
(* PauseToken and PausableFuture.  Each attached future is polled by the   *)
(* task it is the root of; pause() and resume() are called from other      *)
(* tasks.  Every atomic operation (flag load, flag store, waker register,  *)
(* wake) is a step.                                                        *)
(***************************************************************************)
notPauseVars == << transferVars, authVars, jobVars, deployVars, unitVars >>

\* Waker::wake on the task of a future: an idle task is scheduled, a task in
\* the middle of a poll is marked notified and polled again when that poll
\* returns Pending, a scheduled or completed task is left as it is
wake(r) ==
    CASE r.pc \in {"parked", "inner_wait"} ->
            [r EXCEPT !.pc = "scheduled", !.woken = (r.pc = "parked")]
      [] r.pc \in {"register", "load2", "inner"} -> [r EXCEPT !.notified = TRUE]
      [] OTHER -> r

\* the poll returns Pending: the task goes idle unless it was notified meanwhile
pending(r, idle_pc) ==
    IF r.notified
      THEN [r EXCEPT !.pc = "scheduled", !.notified = FALSE]
      ELSE [r EXCEPT !.pc = idle_pc]

\* a poll that returns Pending after the register without loading the flag again
poll_after_register_no_recheck(set) == "parked"

\* the second load of the flag, after the register
poll_after_register(set) == IF ~set THEN "inner" ELSE "parked"

\* poll: the first load of the flag; clear: the inner future is polled
PollBegin(f) ==
    /\ fut[f].pc = "scheduled"
    /\ fut' = [fut EXCEPT ![f].pc = IF ~pt_set THEN "inner" ELSE "register"]
    /\ UNCHANGED << notPauseVars, pt_set, pt_waker, wake_pending, pt_ops_left >>

\* self.flag.waker.register(cx.waker()): replaces the waker registered before
PollRegister(f) ==
    /\ fut[f].pc = "register"
    /\ pt_waker' = f
    /\ fut' = [fut EXCEPT ![f].pc = "load2"]
    /\ UNCHANGED << notPauseVars, pt_set, wake_pending, pt_ops_left >>

\* the second load: poll the inner future or return Pending
PollRecheck(f) ==
    /\ fut[f].pc = "load2"
    /\ fut' = [fut EXCEPT ![f] =
                 IF poll_after_register(pt_set) = "inner"
                   THEN [@ EXCEPT !.pc = "inner"]
                   ELSE pending(@, "parked")]
    /\ UNCHANGED << notPauseVars, pt_set, pt_waker, wake_pending, pt_ops_left >>

\* self.project().inner.poll(cx): Ready ends the task; on Pending the inner
\* future has registered the task's waker with what it waits for
InnerPoll(f) ==
    /\ fut[f].pc = "inner"
    /\ \E ready \in BOOLEAN :
         fut' = [fut EXCEPT ![f] =
                   IF ready
                     THEN [pc |-> "done", notified |-> FALSE, woken |-> FALSE]
                     ELSE pending([@ EXCEPT !.woken = FALSE], "inner_wait")]
    /\ UNCHANGED << notPauseVars, pt_set, pt_waker, wake_pending, pt_ops_left >>

\* what the inner future waits for wakes the task
InnerWake(f) ==
    /\ fut[f].pc = "inner_wait"
    /\ fut' = [fut EXCEPT ![f].pc = "scheduled"]
    /\ UNCHANGED << notPauseVars, pt_set, pt_waker, wake_pending, pt_ops_left >>

\* PauseToken::pause: set.store(true)
TokenPause ==
    /\ pt_ops_left > 0
    /\ pt_ops_left' = pt_ops_left - 1
    /\ pt_set' = TRUE
    /\ UNCHANGED << notPauseVars, pt_waker, wake_pending, fut >>

\* PauseToken::resume: set.store(false)
TokenResumeStore ==
    /\ pt_ops_left > 0
    /\ pt_ops_left' = pt_ops_left - 1
    /\ pt_set' = FALSE
    /\ wake_pending' = wake_pending + 1
    /\ UNCHANGED << notPauseVars, pt_waker, fut >>

\* PauseToken::resume: waker.wake() takes the registered waker, if any, and
\* wakes it
TokenResumeWake ==
    /\ wake_pending > 0
    /\ wake_pending' = wake_pending - 1
    /\ IF pt_waker # NoFut
         THEN /\ fut' = [fut EXCEPT ![pt_waker] = wake(@)]
              /\ pt_waker' = NoFut
         ELSE UNCHANGED << fut, pt_waker >>
    /\ UNCHANGED << notPauseVars, pt_set, pt_ops_left >>

PollNext(f) ==
    \/ PollBegin(f)
    \/ PollRegister(f)
    \/ PollRecheck(f)
    \/ InnerPoll(f)

TokenNext ==
    \/ TokenPause
    \/ TokenResumeStore
    \/ TokenResumeWake

PauseNext ==
    \/ \E f \in Futs : PollNext(f) \/ InnerWake(f)
    \/ TokenNext

PauseInit ==
    /\ TransferIdle
    /\ AuthStartWith({FALSE})
    /\ JobIdle
    /\ PauseStartWith(1..MaxFutures, MaxTokenOps)
    /\ DeployIdle
    /\ UnitsIdle

PauseSpec == PauseInit /\ [][PauseNext]_vars

\* a scheduled task is eventually polled and a resume() that has begun
\* returns; what the inner futures wait for, and the calls, carry no fairness
PauseFairSpec ==
    /\ PauseSpec
    /\ \A f \in Futs : WF_vars(PollNext(f))
    /\ WF_vars(TokenResumeWake)

(***************************************************************************)
(* DeploySoftwareService::start / run / cancel and CollectOutputService::   *)
(* start / run / cancel.  start runs in the task spawned for its command,  *)
(* cancel in the task spawned for the cancel command.                      *)
(***************************************************************************)
notDeployVars == << transferVars, authVars, jobVars, pauseVars, unitVars >>

\* a first report that is Started for every kind of task
first_report_started(k) == "Started"

\* the status start reports before it inserts the token
first_report(k) == IF k = "deploy" THEN "Queued" ELSE "Started"

dreport(t, status) == [dlog EXCEPT ![t] = Append(@, status)]

\* deploy tasks inside run that hold a permit
Running ==
    { t \in DTasks : /\ dtask[t].kind = "deploy"
                     /\ dtask[t].pc = "select"
                     /\ dtask[t].run \in {"report_started", "work"} }

\* start: report Queued (deploy) or Started (collect), insert the token into
\* the cancel_map, and begin the select.  A cancel(id) that comes between the
\* report and the insert finds no token, as it does before the report, so
\* the two are one step.
DStart(t) ==
    /\ dtask[t].pc = "init"
    /\ dlog' = dreport(t, first_report(dtask[t].kind))
    /\ cancel_map' = cancel_map \cup {t}
    /\ dtask' = [dtask EXCEPT ![t].pc = "select",
                              ![t].run = IF dtask[t].kind = "deploy"
                                           THEN "acquire" ELSE "work"]
    /\ UNCHANGED << notDeployVars, deploy_guard, dtoken, dcancel_pc,
                    dcancels_left >>

\* run: self.start_guard.acquire().await
DAcquire(t) ==
    /\ dtask[t].pc = "select" /\ dtask[t].run = "acquire"
    /\ deploy_guard > 0
    /\ deploy_guard' = deploy_guard - 1
    /\ dtask' = [dtask EXCEPT ![t].run = "report_started"]
    /\ UNCHANGED << notDeployVars, cancel_map, dtoken, dcancel_pc,
                    dcancels_left, dlog >>

\* run: report Started
DReportStarted(t) ==
    /\ dtask[t].pc = "select" /\ dtask[t].run = "report_started"
    /\ dlog' = dreport(t, "Started")
    /\ dtask' = [dtask EXCEPT ![t].run = "work"]
    /\ UNCHANGED << notDeployVars, deploy_guard, cancel_map, dtoken, dcancel_pc,
                    dcancels_left >>

\* the select's cancel branch completes and the run future is dropped without
\* its permit being given back
DCancelledPermitKept(t) ==
    /\ dtask[t].pc = "select"
    /\ t \in dtoken
    /\ deploy_guard' = deploy_guard
    /\ dtask' = [dtask EXCEPT ![t].pc = "done", ![t].run = ""]
    /\ UNCHANGED << notDeployVars, cancel_map, dtoken, dcancel_pc,
                    dcancels_left, dlog >>

\* the select's cancel branch completes: the run future is dropped, with the
\* permit it holds, and start returns
DCancelled(t) ==
    /\ dtask[t].pc = "select"
    /\ t \in dtoken
    /\ deploy_guard' = deploy_guard + (IF t \in Running THEN 1 ELSE 0)
    /\ dtask' = [dtask EXCEPT ![t].pc = "done", ![t].run = ""]
    /\ UNCHANGED << notDeployVars, cancel_map, dtoken, dcancel_pc,
                    dcancels_left, dlog >>

\* run returns (deploy: found installed, installed, or an error; collect:
\* saved, optional input missing, or an error); its permit is dropped and the
\* select's first branch completes
DWork(t) ==
    /\ dtask[t].pc = "select" /\ dtask[t].run = "work"
    /\ \E r \in {"ok", "err"} :
         dtask' = [dtask EXCEPT ![t].pc = "remove", ![t].run = "", ![t].res = r]
    /\ deploy_guard' = deploy_guard + (IF t \in Running THEN 1 ELSE 0)
    /\ UNCHANGED << notDeployVars, cancel_map, dtoken, dcancel_pc,
                    dcancels_left, dlog >>

\* the first branch's handler: remove the token from the map and report
\* Failed or Completed.  After the remove a cancel(id) finds no token, so
\* nothing another task does between the remove and the report depends on
\* which of the two it sees; the two are one step.
DFinish(t) ==
    /\ dtask[t].pc = "remove"
    /\ cancel_map' = cancel_map \ {t}
    /\ dlog' = dreport(t, IF dtask[t].res = "err" THEN "Failed" ELSE "Completed")
    /\ dtask' = [dtask EXCEPT ![t].pc = "done", ![t].res = ""]
    /\ UNCHANGED << notDeployVars, deploy_guard, dtoken, dcancel_pc,
                    dcancels_left >>

\* cancel: remove the token from the map (or fail "Task not found") and cancel it
DCancelBegin(t) ==
    /\ dtask[t].kind # "none"
    /\ dcancel_pc[t] = "idle"
    /\ dcancels_left > 0
    /\ dcancels_left' = dcancels_left - 1
    /\ IF t \in cancel_map
         THEN /\ cancel_map' = cancel_map \ {t}
              /\ dtoken' = dtoken \cup {t}
              /\ dcancel_pc' = [dcancel_pc EXCEPT ![t] = "report"]
         ELSE UNCHANGED << cancel_map, dtoken, dcancel_pc >>
    /\ UNCHANGED << notDeployVars, dtask, deploy_guard, dlog >>

\* cancel: report Cancelled
DCancelReport(t) ==
    /\ dcancel_pc[t] = "report"
    /\ dlog' = dreport(t, "Cancelled")
    /\ dcancel_pc' = [dcancel_pc EXCEPT ![t] = "idle"]
    /\ UNCHANGED << notDeployVars, dtask, deploy_guard, cancel_map, dtoken,
                    dcancels_left >>

\* the steps of the run: the installs of LongTasks do not return during it
\* and no cancel arrives for them
DeployNext ==
    \E t \in DTasks \ LongTasks :
        \/ DStart(t)
        \/ DAcquire(t)
        \/ DReportStarted(t)
        \/ DCancelled(t)
        \/ DWork(t)
        \/ DFinish(t)
        \/ DCancelBegin(t)
        \/ DCancelReport(t)

DeployInit ==
    /\ TransferIdle
    /\ AuthStartWith({FALSE})
    /\ JobIdle
    /\ PauseIdle
    /\ \/ DeployFresh(MaxNewTasks, MaxDeployCancels)
       \/ DeploySaturated(MaxNewTasks, MaxDeployCancels)
    /\ UnitsIdle

DeploySpec == DeployInit /\ [][DeployNext]_vars

(***************************************************************************)
(* DownloadFileWorker::run up to its GET: the byte range of one block.     *)
(* The values are u64; every product and sum below is at most file_size,   *)
(* so none of them wraps.                                                  *)
(***************************************************************************)
\* no service but the small ones: nothing of the transfer, the middleware,
\* the job service, the pause token or the deploy service is started
ServicesIdle ==
    /\ TransferIdle
    /\ AuthStartWith({FALSE})
    /\ JobIdle
    /\ PauseIdle
    /\ DeployIdle

last_index == rg_block_count - 1

range_start(i) == i * rg_block_size

range_end_every_block_full(i) == range_start(i) + rg_block_size - 1

range_end(i) ==
    IF i = last_index
      THEN rg_file_size - 1
      ELSE range_start(i) + rg_block_size - 1

\* the worker of block i sends "Range: bytes={start}-{end}", end inclusive
RangeWorkerRun(i) ==
    /\ rg_sent[i] = NoRange
    /\ rg_sent' = [rg_sent EXCEPT ![i] = << range_start(i), range_end(i) >>]
    /\ UNCHANGED << notRangeVars, rg_file_size, rg_block_size >>

RangeNext == \E i \in 0..(rg_block_count - 1) : RangeWorkerRun(i)

RangeInit ==
    /\ ServicesIdle
    /\ RangeAlone
    /\ RangeStartWith(1..MaxRangeSize, 1..MaxRangeBlock)

RangeSpec == RangeInit /\ [][RangeNext]_vars

(***************************************************************************)
(* CollectOutputService::run: load the file, apply the rule, save.         *)
(* n and the line count are usize.  lines - n underflows when n exceeds    *)
(* the line count: a build with overflow checks panics there, a build      *)
(* without them wraps to 2^64 - (n - lines), which is more than the lines  *)
(* of any text, so that skip() then skips every line.                      *)
(***************************************************************************)
\* Iterator::skip(k) followed by collect
skip(lines, k) == SubSeq(lines, k + 1, Len(lines))

\* Iterator::take(k) followed by collect
take(lines, k) == SubSeq(lines, 1, Min({k, Len(lines)}))

\* lines - n does not fit the unsigned type
Underflows == co_rule.kind = "BottomLines" /\ co_rule.n > Len(co_input)

\* load_file succeeds (the failure ends run before any rule is applied)
CollectLoad ==
    /\ co_pc = "load"
    /\ co_pc' = "rule"
    /\ UNCHANGED << notCollectVars, co_input, co_rule, co_output >>

\* the rule is applied when the subtraction, if any, is in range
CollectApplyRule ==
    /\ co_pc = "rule"
    /\ ~Underflows
    /\ co_output' = IF co_rule.kind = "BottomLines"
                      THEN skip(co_input, Len(co_input) - co_rule.n)
                      ELSE take(co_input, co_rule.n)
    /\ co_pc' = "save"
    /\ UNCHANGED << notCollectVars, co_input, co_rule >>

\* build with overflow checks: "attempt to subtract with overflow"
CollectUnderflowPanics ==
    /\ co_pc = "rule"
    /\ Underflows
    /\ co_pc' = "panicked"
    /\ UNCHANGED << notCollectVars, co_input, co_rule, co_output >>

\* build without overflow checks: the difference wraps and skip() drops
\* every line
CollectUnderflowWraps ==
    /\ co_pc = "rule"
    /\ Underflows
    /\ co_output' = skip(co_input, Len(co_input))
    /\ co_pc' = "save"
    /\ UNCHANGED << notCollectVars, co_input, co_rule >>

\* save_file, run returns Ok and start reports Completed
CollectSave ==
    /\ co_pc = "save"
    /\ co_pc' = "completed"
    /\ UNCHANGED << notCollectVars, co_input, co_rule, co_output >>

CollectNext ==
    \/ CollectLoad
    \/ CollectApplyRule
    \/ CollectUnderflowPanics
    \/ CollectUnderflowWraps
    \/ CollectSave

CollectInit ==
    /\ ServicesIdle
    /\ CollectAlone
    /\ CollectStartWith(0..MaxLines,
                        [kind : {"TopLines", "BottomLines"}, n : 0..MaxRuleLines])

CollectSpec == CollectInit /\ [][CollectNext]_vars

(***************************************************************************)
(* RetryStreamClient::execute with RetryOnError and ExponentialBackoff.    *)
(***************************************************************************)
\* RetryOnError::handle: Some(Transient), Some(Fatal) or None
retryable_strategy_handle(res) ==
    CASE res = "ErrMiddleware" -> "Transient"
      [] res = "ErrReqwestTransient" -> "Transient"   \* default_on_request_failure
      [] res = "ErrReqwestOther" -> "Fatal"
      [] res = "UNAUTHORIZED" -> "Transient"
      [] res = "SERVER_ERROR" -> "Transient"          \* default_on_request_success
      [] res = "CLIENT_ERROR" -> "Fatal"
      [] OTHER -> "None"

\* ExponentialBackoff::should_retry: Retry below max_n_retries
should_retry(n) == n < rt_max_retries

\* let result = send(&self.base).await
RetrySend ==
    /\ rt_pc = "send"
    /\ \E res \in SendResults :
         rt_result' = [attempt |-> rt_sends + 1, res |-> res]
    /\ rt_sends' = rt_sends + 1
    /\ rt_pc' = "handle"
    /\ UNCHANGED << notRetryVars, rt_max_retries, rt_n_past_retries, rt_returned >>

\* break with the result: not transient, or no retry granted
RetryBreak ==
    /\ rt_pc = "handle"
    /\ \/ retryable_strategy_handle(rt_result.res) # "Transient"
       \/ ~should_retry(rt_n_past_retries)
    /\ rt_returned' = rt_result
    /\ rt_pc' = "returned"
    /\ UNCHANGED << notRetryVars, rt_max_retries, rt_n_past_retries, rt_sends, rt_result >>

\* transient and Retry { execute_after } with execute_after not before
\* Utc::now(): sleep, count and continue
RetrySleep ==
    /\ rt_pc = "handle"
    /\ retryable_strategy_handle(rt_result.res) = "Transient"
    /\ should_retry(rt_n_past_retries)
    /\ rt_n_past_retries' = rt_n_past_retries + 1
    /\ rt_pc' = "send"
    /\ UNCHANGED << notRetryVars, rt_max_retries, rt_sends, rt_result, rt_returned >>

\* transient and Retry { execute_after } with execute_after before
\* Utc::now() (the wall clock has passed it): to_std() fails on the negative
\* duration and the ? returns Err(Middleware)
RetryDurationOutOfRange ==
    /\ rt_pc = "handle"
    /\ retryable_strategy_handle(rt_result.res) = "Transient"
    /\ should_retry(rt_n_past_retries)
    /\ rt_returned' = DurationError
    /\ rt_pc' = "returned"
    /\ UNCHANGED << notRetryVars, rt_max_retries, rt_n_past_retries, rt_sends, rt_result >>

RetryNext ==
    \/ RetrySend
    \/ RetryBreak
    \/ RetrySleep
    \/ RetryDurationOutOfRange

RetryInit ==
    /\ ServicesIdle
    /\ RetryAlone
    /\ RetryStartWith(0..MaxStreamRetries)

RetrySpec == RetryInit /\ [][RetryNext]_vars

(***************************************************************************)
(* PbsClient: get_jobs and get_job decode the qstat JSON and fall back to  *)
(* parsing the lines of qstat -xfw when the JSON path fails.               *)
(***************************************************************************)
\* the condition of get_pbs_jobs and get_pbs_jobs_alternative
exit_ne_0_or_ne_254(exit_status) == exit_status # 0 \/ exit_status # 254

\* the condition of get_pbs_job and get_pbs_job_alternative
exit_ne_0_and_ne_254(exit_status) == exit_status # 0 /\ exit_status # 254

\* the match on job_state, failed being the value of the condition
match_job_state(job_state, failed) ==
    CASE job_state = "R" -> "Running"
      [] job_state = "E" -> IF failed THEN "Failed" ELSE "Completing"
      [] job_state = "F" -> IF failed THEN "Failed" ELSE "Completed"
      [] job_state \in {"S", "U", "H"} -> "Suspended"
      [] job_state = "Q" -> "Queuing"
      [] OTHER -> "Unknown"

\* the lines of qstat -xfw for the record, after its "Job Id: " line
xfw_lines(job_state, exit_status, exit_first) ==
    IF exit_first
      THEN << [key |-> "Exit_status", value |-> exit_status],
              [key |-> "job_state", value |-> job_state] >>
      ELSE << [key |-> "job_state", value |-> job_state],
              [key |-> "Exit_status", value |-> exit_status] >>

\* Job::default(): state Unknown, exit_status_code 0
DefaultJob == [state |-> "Unknown", exit_status_code |-> 0]

\* the loop over the lines: each line updates temp, the job_state line from
\* the exit_status_code temp holds when that line is read
RECURSIVE parse_lines(_, _, _)
parse_lines(lines, temp, and_cond) ==
    IF lines = << >>
      THEN temp
      ELSE LET line == Head(lines)
               next == IF line.key = "job_state"
                         THEN [temp EXCEPT !.state =
                                 match_job_state(line.value,
                                   IF and_cond
                                     THEN exit_ne_0_and_ne_254(temp.exit_status_code)
                                     ELSE exit_ne_0_or_ne_254(temp.exit_status_code))]
                         ELSE [temp EXCEPT !.exit_status_code = line.value]
           IN parse_lines(Tail(lines), next, and_cond)

get_pbs_jobs(job_state, exit_status) ==
    match_job_state(job_state, exit_ne_0_or_ne_254(exit_status))

get_pbs_jobs_alternative(lines) == parse_lines(lines, DefaultJob, FALSE).state

get_pbs_job(job_state, exit_status) ==
    match_job_state(job_state, exit_ne_0_and_ne_254(exit_status))

get_pbs_job_alternative(lines) == parse_lines(lines, DefaultJob, TRUE).state

\* get_jobs: the JSON path, or the fallback when it returned Err
PbsGetJobs ==
    /\ pbs_jobs = NotDecoded
    /\ \/ pbs_jobs' = [path |-> "json",
                       state |-> get_pbs_jobs(pbs_job_state, pbs_exit_status)]
       \/ pbs_jobs' = [path |-> "xfw",
                       state |-> get_pbs_jobs_alternative(
                           xfw_lines(pbs_job_state, pbs_exit_status, pbs_exit_first))]
    /\ UNCHANGED << notPbsVars, pbs_job_state, pbs_exit_status, pbs_exit_first, pbs_job >>

\* get_job: the JSON path, or the fallback when it returned Err
PbsGetJob ==
    /\ pbs_job = NotDecoded
    /\ \/ pbs_job' = [path |-> "json",
                      state |-> get_pbs_job(pbs_job_state, pbs_exit_status)]
       \/ pbs_job' = [path |-> "xfw",
                      state |-> get_pbs_job_alternative(
                          xfw_lines(pbs_job_state, pbs_exit_status, pbs_exit_first))]
    /\ UNCHANGED << notPbsVars, pbs_job_state, pbs_exit_status, pbs_exit_first, pbs_jobs >>

PbsNext == PbsGetJobs \/ PbsGetJob

PbsInit ==
    /\ ServicesIdle
    /\ PbsAlone
    /\ PbsStartWith(PbsStates, ExitStatuses, BOOLEAN)

PbsSpec == PbsInit /\ [][PbsNext]_vars

(***************************************************************************)
(* refresh_jobs: timer::new awaits interval.tick(), then awaits f(), which *)
(* awaits refresh_all; refresh_all awaits refresh(id) for each id.         *)
(***************************************************************************)
\* the period elapses, whatever the loop is doing (tokio's interval fires
\* the ticks missed as soon as it is awaited again)
TimerElapse ==
    /\ tm_due >= 0
    /\ tm_due < MaxDueTicks
    /\ tm_due' = tm_due + 1
    /\ UNCHANGED << notTimerVars, tm_pc, tm_iterations, tm_active, tm_repo,
                    tm_ids, tm_refreshing >>

\* a tick is consumed and f() is called without waiting for it: the calls
\* run side by side
TimerTickNotAwaited ==
    /\ tm_due > 0
    /\ tm_iterations < MaxIterations
    /\ tm_due' = tm_due - 1
    /\ tm_iterations' = tm_iterations + 1
    /\ tm_active' = tm_active + 1
    /\ \E ids \in Orders(tm_repo) : tm_ids' = ids
    /\ tm_pc' = "refresh_all"
    /\ UNCHANGED << notTimerVars, tm_repo, tm_refreshing >>

\* interval.tick().await returns and f() is called: refresh_all collects
\* the ids of the repo
TimerTick ==
    /\ tm_pc = "tick"
    /\ tm_due > 0
    /\ tm_iterations < MaxIterations
    /\ tm_due' = tm_due - 1
    /\ tm_iterations' = tm_iterations + 1
    /\ tm_active' = tm_active + 1
    /\ \E ids \in Orders(tm_repo) : tm_ids' = ids
    /\ tm_pc' = "refresh_all"
    /\ UNCHANGED << notTimerVars, tm_repo, tm_refreshing >>

\* for id in ids: self.refresh(id) is called
RefreshAllCall ==
    /\ tm_pc = "refresh_all"
    /\ tm_ids # << >>
    /\ tm_refreshing' = tm_refreshing \cup {Head(tm_ids)}
    /\ tm_pc' = "refresh"
    /\ UNCHANGED << notTimerVars, tm_due, tm_iterations, tm_active, tm_repo, tm_ids >>

\* refresh(id).await returns, with Ok or with an error that is logged; a
\* job found in a terminal state has been removed from the repo
RefreshAllAwaited ==
    /\ tm_pc = "refresh"
    /\ tm_refreshing' = tm_refreshing \ {Head(tm_ids)}
    /\ tm_ids' = Tail(tm_ids)
    /\ \/ tm_repo' = tm_repo
       \/ tm_repo' = tm_repo \ {Head(tm_ids)}
    /\ tm_pc' = "refresh_all"
    /\ UNCHANGED << notTimerVars, tm_due, tm_iterations, tm_active >>

\* the loop over the ids is over: refresh_all returns, f() gives Continue
RefreshAllReturn ==
    /\ tm_pc = "refresh_all"
    /\ tm_ids = << >>
    /\ tm_active' = tm_active - 1
    /\ tm_pc' = "tick"
    /\ UNCHANGED << notTimerVars, tm_due, tm_iterations, tm_repo, tm_ids, tm_refreshing >>

\* start of an ExecuteUsecase task inserts its job, at any time
TimerJobInserted(id) ==
    /\ tm_due >= 0
    /\ id \notin tm_repo
    /\ tm_repo' = tm_repo \cup {id}
    /\ UNCHANGED << notTimerVars, tm_due, tm_pc, tm_iterations, tm_active, tm_ids,
                    tm_refreshing >>

TimerNext ==
    \/ TimerElapse
    \/ TimerTick
    \/ RefreshAllCall
    \/ RefreshAllAwaited
    \/ RefreshAllReturn
    \/ \E id \in TimerJobs : TimerJobInserted(id)

TimerInit ==
    /\ ServicesIdle
    /\ TimerAlone
    /\ TimerStartWith(SUBSET TimerJobs, 0)

TimerSpec == TimerInit /\ [][TimerNext]_vars

(***************************************************************************)
(* impl SelectTaskService for Container: match on the type, call the       *)
(* executor, log the error if it returned one.                             *)
(***************************************************************************)
\* the task type an executor is implemented for (type Body = .. of each)
Body(executor) ==
    CASE executor = "DeploySoftwareService" -> "DeploySoftware"
      [] executor = "JobServiceImpl" -> "ExecuteUsecase"
      [] executor = "CollectOutputService" -> "CollectOuput"
      [] executor = "UploadFileService" -> "UploadFile"
      [] executor = "DownloadFileService" -> "DownloadFile"
      [] OTHER -> "none"

\* a match that sends the commands of collect tasks to the deploy executor
inj_ref_collect_to_deploy(type) ==
    CASE type \in {"DeploySoftware", "CollectOuput"} -> "DeploySoftwareService"
      [] type = "ExecuteUsecase" -> "JobServiceImpl"
      [] type = "UploadFile" -> "UploadFileService"
      [] type = "DownloadFile" -> "DownloadFileService"

\* the arm of the match (the same five arms in start, pause, resume, cancel;
\* start matches on the variant of the body, whose type() is the task type)
inj_ref(type) ==
    CASE type = "DeploySoftware" -> "DeploySoftwareService"
      [] type = "ExecuteUsecase" -> "JobServiceImpl"
      [] type = "CollectOuput" -> "CollectOutputService"
      [] type = "UploadFile" -> "UploadFileService"
      [] type = "DownloadFile" -> "DownloadFileService"

\* the tag of the error line of each operation
log_tag(op) ==
    CASE op = "start" -> "[run]"
      [] op = "pause" -> "[pause]"
      [] op = "resume" -> "[continue]"
      [] op = "cancel" -> "[cancel]"

\* the caller invokes start, pause, resume or cancel of the Container
DispatchBegin ==
    /\ dp_pc = "idle"
    /\ dp_left > 0
    /\ dp_left' = dp_left - 1
    /\ \E op \in Operations, type \in TaskTypes :
         dp_cmd' = [op |-> op, type |-> type]
    /\ dp_call' = NoCall
    /\ dp_pc' = "match"
    /\ UNCHANGED << notDispatchVars, dp_log, dp_returned >>

\* the match calls the operation of the selected executor and awaits it;
\* the executor answers Ok or Err
DispatchCall ==
    /\ dp_pc = "match"
    /\ \E res \in {"Ok", "Err"} :
         dp_call' = [executor |-> inj_ref(dp_cmd.type), op |-> dp_cmd.op,
                     result |-> res]
    /\ dp_pc' = "if_let"
    /\ UNCHANGED << notDispatchVars, dp_left, dp_cmd, dp_log, dp_returned >>

\* if let Err(e): the error is logged; the function returns ()
DispatchReturn ==
    /\ dp_pc = "if_let"
    /\ dp_log' = IF dp_call.result = "Err"
                   THEN Append(dp_log, [tag |-> log_tag(dp_cmd.op),
                                        task_type |-> dp_cmd.type])
                   ELSE dp_log
    /\ dp_returned' = dp_returned + 1
    /\ dp_pc' = "idle"
    /\ UNCHANGED << notDispatchVars, dp_left, dp_cmd, dp_call >>

DispatchNext ==
    \/ DispatchBegin
    \/ DispatchCall
    \/ DispatchReturn

DispatchInit ==
    /\ ServicesIdle
    /\ DispatchAlone
    /\ DispatchStartWith(MaxCommands)

DispatchSpec == DispatchInit /\ [][DispatchNext]_vars

(***************************************************************************)
(* The mutexes of an upload.  tokio's Mutex::lock().await is a step that   *)
(* can be taken when the mutex is free; the guard is released at the end   *)
(* of the statement or block that holds it, or when the future that holds  *)
(* it is dropped.                                                          *)
(***************************************************************************)
acquire(who, m) ==
    /\ lk[m] = Free
    /\ lk' = [lk EXCEPT ![m] = who]

release(ms) == lk' = [ m \in Mutexes |-> IF m \in ms THEN Free ELSE lk[m] ]

lockRest == << lk_in_map, lk_paused, lk_cancel_upload, lk_cancelled, lk_queue,
               lk_ops_left, lk_fails_left >>

LiveWorkers == { w \in LockWorkers : lk_worker[w] # "none" }

\* run: self.id2supervisor.lock().await
LockStartLockMap ==
    /\ lk_pc["start"] = "insert"
    /\ acquire(CallerName("start"), "map")
    /\ lk_pc' = [lk_pc EXCEPT !["start"] = "inserting"]
    /\ UNCHANGED << notLockVars, lk_worker, lockRest >>

\* .insert(task.id, supervisor.clone()); the guard is dropped
LockStartInsert ==
    /\ lk_pc["start"] = "inserting"
    /\ lk_in_map' = TRUE
    /\ release({"map"})
    /\ lk_pc' = [lk_pc EXCEPT !["start"] = "select"]
    /\ UNCHANGED << notLockVars, lk_worker, lk_paused, lk_cancel_upload,
                    lk_cancelled, lk_queue, lk_ops_left, lk_fails_left >>

\* the loop: the permit branch with an index popped
LoopPop ==
    /\ lk_pc["start"] = "select"
    /\ ~lk_paused
    /\ lk_queue > 0
    /\ \E w \in LockWorkers : lk_worker[w] = "none"
    /\ lk_queue' = lk_queue - 1
    /\ lk_pc' = [lk_pc EXCEPT !["start"] = "spawn_lock"]
    /\ UNCHANGED << notLockVars, lk, lk_worker, lk_in_map, lk_paused,
                    lk_cancel_upload, lk_cancelled, lk_ops_left, lk_fails_left >>

\* cancel_token: self.cancel_workers.lock().await
LoopLockCancelWorkers ==
    /\ lk_pc["start"] \in {"spawn_lock", "cancel_lock"}
    /\ acquire(CallerName("start"), "cancel_workers")
    /\ lk_pc' = [lk_pc EXCEPT !["start"] =
                   IF lk_pc["start"] = "spawn_lock" THEN "spawning" ELSE "cancelling"]
    /\ UNCHANGED << notLockVars, lk_worker, lockRest >>

\* the same step taken only with the map mutex free, as if the loop locked
\* id2supervisor before it let go of cancel_workers
LoopSpawnUnderMap ==
    /\ lk_pc["start"] = "spawning"
    /\ lk["map"] = Free
    /\ LET w == CHOOSE v \in LockWorkers : lk_worker[v] = "none" IN
         /\ lk_worker' = [lk_worker EXCEPT ![w] = "run"]
         /\ lk_cancelled' = lk_cancelled \ {w}
    /\ release({"cancel_workers"})
    /\ lk_pc' = [lk_pc EXCEPT !["start"] = "select"]
    /\ UNCHANGED << notLockVars, lk_in_map, lk_paused, lk_cancel_upload, lk_queue,
                    lk_ops_left, lk_fails_left >>

\* .clone(); the worker is built and spawned; the guard is dropped
LoopSpawn ==
    /\ lk_pc["start"] = "spawning"
    /\ LET w == CHOOSE v \in LockWorkers : lk_worker[v] = "none" IN
         /\ lk_worker' = [lk_worker EXCEPT ![w] = "run"]
         /\ lk_cancelled' = lk_cancelled \ {w}
    /\ release({"cancel_workers"})
    /\ lk_pc' = [lk_pc EXCEPT !["start"] = "select"]
    /\ UNCHANGED << notLockVars, lk_in_map, lk_paused, lk_cancel_upload, lk_queue,
                    lk_ops_left, lk_fails_left >>

\* the loop: the permit branch with an empty queue and no worker left
LoopBreak ==
    /\ lk_pc["start"] = "select"
    /\ ~lk_paused
    /\ lk_queue = 0
    /\ LiveWorkers = {}
    /\ lk_pc' = [lk_pc EXCEPT !["start"] = "remove"]
    /\ UNCHANGED << notLockVars, lk, lk_worker, lockRest >>

\* the loop: the branch of cancel_upload.cancelled()
LoopCancelBranch ==
    /\ lk_pc["start"] = "select"
    /\ lk_cancel_upload
    /\ lk_pc' = [lk_pc EXCEPT !["start"] = "cancel_lock"]
    /\ UNCHANGED << notLockVars, lk, lk_worker, lockRest >>

\* .cancel(); the guard is dropped; break true
LoopCancelWorkers ==
    /\ lk_pc["start"] = "cancelling"
    /\ lk_cancelled' = lk_cancelled \cup LiveWorkers
    /\ release({"cancel_workers"})
    /\ lk_pc' = [lk_pc EXCEPT !["start"] = "remove"]
    /\ UNCHANGED << notLockVars, lk_worker, lk_in_map, lk_paused, lk_cancel_upload,
                    lk_queue, lk_ops_left, lk_fails_left >>

\* start after run: self.id2supervisor.lock().await
LockStartLockMapAgain ==
    /\ lk_pc["start"] = "remove"
    /\ acquire(CallerName("start"), "map")
    /\ lk_pc' = [lk_pc EXCEPT !["start"] = "removing"]
    /\ UNCHANGED << notLockVars, lk_worker, lockRest >>

\* .remove(&id); the guard is dropped; start reports and returns
LockStartRemove ==
    /\ lk_pc["start"] = "removing"
    /\ lk_in_map' = FALSE
    /\ release({"map"})
    /\ lk_pc' = [lk_pc EXCEPT !["start"] = "done"]
    /\ UNCHANGED << notLockVars, lk_worker, lk_paused, lk_cancel_upload,
                    lk_cancelled, lk_queue, lk_ops_left, lk_fails_left >>

\* pause(id), resume(id) or cancel(id) is called
LockCallBegin(c) ==
    /\ c # "start"
    /\ lk_pc[c] = "idle"
    /\ lk_ops_left > 0
    /\ lk_ops_left' = lk_ops_left - 1
    /\ lk_pc' = [lk_pc EXCEPT ![c] = "map_lock"]
    /\ UNCHANGED << notLockVars, lk, lk_worker, lk_in_map, lk_paused,
                    lk_cancel_upload, lk_cancelled, lk_queue, lk_fails_left >>

\* self.id2supervisor.lock().await of pause, resume and cancel
LockCallLockMap(c) ==
    /\ c # "start"
    /\ lk_pc[c] = "map_lock"
    /\ acquire(CallerName(c), "map")
    /\ lk_pc' = [lk_pc EXCEPT ![c] = "got_map"]
    /\ UNCHANGED << notLockVars, lk_worker, lockRest >>

\* "supervisor not found": the ? returns and drops the guard
LockCallNotFound(c) ==
    /\ c # "start"
    /\ lk_pc[c] = "got_map"
    /\ ~lk_in_map
    /\ release({"map"})
    /\ lk_pc' = [lk_pc EXCEPT ![c] = "idle"]
    /\ UNCHANGED << notLockVars, lk_worker, lockRest >>

\* pause: supervisor.pause_token.pause(), with the map guard held
LockPauseSet ==
    /\ lk_pc["pause"] = "got_map"
    /\ lk_in_map
    /\ lk_paused' = TRUE
    /\ lk_pc' = [lk_pc EXCEPT !["pause"] = "cw_lock"]
    /\ UNCHANGED << notLockVars, lk, lk_worker, lk_in_map, lk_cancel_upload,
                    lk_cancelled, lk_queue, lk_ops_left, lk_fails_left >>

\* pause: supervisor.cancel_workers.lock().await, with the map guard held
LockPauseLockCancelWorkers ==
    /\ lk_pc["pause"] = "cw_lock"
    /\ acquire(CallerName("pause"), "cancel_workers")
    /\ lk_pc' = [lk_pc EXCEPT !["pause"] = "got_cw"]
    /\ UNCHANGED << notLockVars, lk_worker, lockRest >>

\* pause: cancel the token and replace it; the block ends, both guards drop
LockPauseCancelWorkers ==
    /\ lk_pc["pause"] = "got_cw"
    /\ lk_cancelled' = lk_cancelled \cup LiveWorkers
    /\ release({"map", "cancel_workers"})
    /\ lk_pc' = [lk_pc EXCEPT !["pause"] = "report"]
    /\ UNCHANGED << notLockVars, lk_worker, lk_in_map, lk_paused, lk_cancel_upload,
                    lk_queue, lk_ops_left, lk_fails_left >>

\* resume: .get(&id)?.pause_token.resume(); the guard is dropped
LockResume ==
    /\ lk_pc["resume"] = "got_map"
    /\ lk_in_map
    /\ lk_paused' = FALSE
    /\ release({"map"})
    /\ lk_pc' = [lk_pc EXCEPT !["resume"] = "report"]
    /\ UNCHANGED << notLockVars, lk_worker, lk_in_map, lk_cancel_upload,
                    lk_cancelled, lk_queue, lk_ops_left, lk_fails_left >>

\* cancel: .remove(&id)?; the guard is dropped; cancel_upload.cancel()
LockCancel ==
    /\ lk_pc["cancel"] = "got_map"
    /\ lk_in_map
    /\ lk_in_map' = FALSE
    /\ lk_cancel_upload' = TRUE
    /\ release({"map"})
    /\ lk_pc' = [lk_pc EXCEPT !["cancel"] = "report"]
    /\ UNCHANGED << notLockVars, lk_worker, lk_paused, lk_cancelled, lk_queue,
                    lk_ops_left, lk_fails_left >>

\* the status is reported and the call returns
LockCallReport(c) ==
    /\ c # "start"
    /\ lk_pc[c] = "report"
    /\ lk_pc' = [lk_pc EXCEPT ![c] = "idle"]
    /\ UNCHANGED << notLockVars, lk, lk_worker, lockRest >>

\* worker run: supervisor_sv.file.lock().await
LockWorkerLockFile(w) ==
    /\ lk_worker[w] = "run"
    /\ w \notin lk_cancelled
    /\ acquire(WorkerName(w), "file")
    /\ lk_worker' = [lk_worker EXCEPT ![w] = "reading"]
    /\ UNCHANGED << notLockVars, lk_pc, lockRest >>

\* seek and read succeed; the block ends and the guard is dropped
LockWorkerRead(w) ==
    /\ lk_worker[w] = "reading"
    /\ w \notin lk_cancelled
    /\ release({"file"})
    /\ lk_worker' = [lk_worker EXCEPT ![w] = "send"]
    /\ UNCHANGED << notLockVars, lk_pc, lockRest >>

\* seek or read fails: the ? drops the guard, the worker reverts its index
LockWorkerReadFails(w) ==
    /\ lk_worker[w] = "reading"
    /\ w \notin lk_cancelled
    /\ lk_fails_left > 0
    /\ lk_fails_left' = lk_fails_left - 1
    /\ release({"file"})
    /\ lk_queue' = lk_queue + 1
    /\ lk_worker' = [lk_worker EXCEPT ![w] = "none"]
    /\ UNCHANGED << notLockVars, lk_pc, lk_in_map, lk_paused, lk_cancel_upload,
                    lk_cancelled, lk_ops_left >>

\* the request is answered; the worker is parked until its token is
\* cancelled or dropped, holding no mutex
LockWorkerSent(w) ==
    /\ lk_worker[w] = "send"
    /\ w \notin lk_cancelled
    /\ lk_worker' = [lk_worker EXCEPT ![w] = "none"]
    /\ UNCHANGED << notLockVars, lk, lk_pc, lockRest >>

\* the token is cancelled: the select drops the run future, and with it
\* the guard of the file if run holds it; the index is reverted
LockWorkerCancelled(w) ==
    /\ lk_worker[w] # "none"
    /\ w \in lk_cancelled
    /\ lk' = [lk EXCEPT !["file"] = IF @ = WorkerName(w) THEN Free ELSE @]
    /\ lk_queue' = lk_queue + 1
    /\ lk_cancelled' = lk_cancelled \ {w}
    /\ lk_worker' = [lk_worker EXCEPT ![w] = "none"]
    /\ UNCHANGED << notLockVars, lk_pc, lk_in_map, lk_paused, lk_cancel_upload,
                    lk_ops_left, lk_fails_left >>

LockStartNext ==
    \/ LockStartLockMap
    \/ LockStartInsert
    \/ LoopPop
    \/ LoopLockCancelWorkers
    \/ LoopSpawn
    \/ LoopBreak
    \/ LoopCancelBranch
    \/ LoopCancelWorkers
    \/ LockStartLockMapAgain
    \/ LockStartRemove

LockCallNext(c) ==
    \/ LockCallLockMap(c)
    \/ LockCallNotFound(c)
    \/ c = "pause" /\ LockPauseSet
    \/ c = "pause" /\ LockPauseLockCancelWorkers
    \/ c = "pause" /\ LockPauseCancelWorkers
    \/ c = "resume" /\ LockResume
    \/ c = "cancel" /\ LockCancel
    \/ LockCallReport(c)

LockWorkerNext(w) ==
    \/ LockWorkerLockFile(w)
    \/ LockWorkerRead(w)
    \/ LockWorkerReadFails(w)
    \/ LockWorkerSent(w)
    \/ LockWorkerCancelled(w)

LockNext ==
    \/ LockStartNext
    \/ \E c \in Callers \ {"start"} : LockCallBegin(c) \/ LockCallNext(c)
    \/ \E w \in LockWorkers : LockWorkerNext(w)

LockInit ==
    /\ ServicesIdle
    /\ LockAlone
    /\ LockStartWith("insert", 1..MaxLockBlocks, MaxLockOps, MaxLockFails)

\* every task is scheduled again and again, and tokio's Mutex hands the
\* lock to its waiters in the order they came: a waiter is not passed over
\* for ever.  The arrival of a call is not forced.
LockFairSpec ==
    /\ LockInit
    /\ [][LockNext]_vars
    /\ SF_vars(LockStartNext)
    /\ \A c \in Callers \ {"start"} : SF_vars(LockCallNext(c))
    /\ \A w \in LockWorkers : SF_vars(LockWorkerNext(w))

(***************************************************************************)
(* State functions used by the properties                                  *)
(***************************************************************************)
SupRunning == sup_pc \notin {"idle", "exit_false", "exit_true"}

\* the supervisor loop of a multi-part transfer is running
InTransfer == svc_pc = "supervise" /\ SupRunning

\* workers whose chunk transfer is under way
Transferring == { w \in Live : workers[w].st \in {"run", "sent"} }

\* indices popped and neither transferred nor reverted: the one the loop holds
\* and those of the transferring workers
NOutstanding ==
    (IF sup_pc = "popped" THEN 1 ELSE 0) + Cardinality(Transferring)

OutstandingIdx ==
    (IF sup_pc = "popped" THEN {sup_idx} ELSE {})
        \cup { workers[w].block_index : w \in Transferring }

\* pause(id) has returned, and neither resume(id) was called nor the
\* supervisor cancelled or dropped from the map since
PauseInForce ==
    /\ Task \in id2supervisor
    /\ reports["Paused"] > 0
    /\ pause_token
    /\ pause_pc = "idle"
    /\ ~cancel_transfer

Submitted == { r.nth : r \in requests }

(***************************************************************************)
(* Properties                                                              *)
(***************************************************************************)

\* C1: for a supervisor created with N block indices, in every state
\* (indices popped and still outstanding) + (indices in the queue) +
\* (indices confirmed transferred) = N, and no index is in two of the groups.
C1_Conservation ==
    sup_pc # "idle" =>
        /\ NOutstanding + Len(index_queue) + Cardinality(completed)
              = Cardinality(total)
        /\ OutstandingIdx \cap Range(index_queue) = {}
        /\ OutstandingIdx \cap completed = {}
        /\ Range(index_queue) \cap completed = {}

\* C2: when every chunk transfer succeeds and no lifecycle call is issued, a
\* transfer of N >= 1 blocks whose supervisor loop has started ends with a
\* Completed report.
C2_EventuallyCompleted ==
    (svc_pc = "supervise")
        ~> (reports["Completed"] > 0 \/ events_left < MaxEvents)

\* C3: a worker whose chunk transfer succeeded never pushes its index back:
\* no transferred index is in the queue again.
C3_NoRequeueAfterSuccess ==
    \A i \in completed : i \notin Range(index_queue)

\* C4: once pause(id) has returned, and until resume(id) is called or the
\* supervisor is cancelled, no worker sends a chunk request or completes a
\* chunk transfer.
C4_NoTransferWhilePaused ==
    [][ PauseInForce => (requests' = requests /\ completed' = completed) ]_vars

\* C5: when the supervisor loop exits with the non-cancelled outcome, the
\* queue is empty, no worker is in flight and every index was transferred.
C5_SuccessExitMeansAllDone ==
    sup_pc = "exit_false" =>
        /\ index_queue = << >>
        /\ Live = {}
        /\ completed = total

\* C6: at most MAX_WORKER_COUNT workers of the supervisor hold a permit at
\* the same time.
C6_AtMost16InFlight == Cardinality(Live) <= MAX_WORKER_COUNT

\* C6 witness: all 16 permits are held by workers while a further index
\* waits in the queue and the loop waits for a permit.
C6_Saturated ==
    /\ Cardinality(Live) = MAX_WORKER_COUNT
    /\ start_guard = 0
    /\ index_queue # << >>
    /\ sup_pc = "select"

\* C7: while a multi-part download is being transferred, the id->supervisor
\* map has the entry of the task, so no lifecycle call issued meanwhile ends
\* "supervisor not found".
C7_DownloadRegistered ==
    (kind = "download" /\ InTransfer) =>
        (Task \in id2supervisor /\ missed = {})

\* C8: a cancel(id) issued while a multi-part download is in progress reports
\* Cancelled; when start has ended the local file does not exist and no
\* Completed was reported.
C8_CancelDeletesDownload ==
    (kind = "download" /\ cancel_pc = "idle"
        /\ ("cancel" \in missed \/ cancel_transfer)) =>
        /\ reports["Cancelled"] > 0
        /\ svc_pc = "done" => (~file_exists /\ reports["Completed"] = 0)

\* C9: after a Prepare reply FLASH_UPLOAD no PartialUploadInfo and no chunk
\* request is issued, no supervisor is created or registered, and start ends
\* with exactly a Completed report.
C9_FlashUploadSendsNothing ==
    prep_status = FLASH_UPLOAD =>
        /\ info_requests = {}
        /\ requests = {}
        /\ sup_pc = "idle"
        /\ Task \notin id2supervisor
        /\ svc_pc = "done" => (reports["Completed"] = 1 /\ reports["Failed"] = 0)
        /\ svc_pc \in {"remove", "report", "done"}

\* C9 witness: a flash upload ran to its end.
C9_FlashUploadDone ==
    /\ prep_status = FLASH_UPLOAD
    /\ svc_pc = "done"
    /\ reports["Completed"] = 1

\* C10: for an upload answered INCOMPLETE_UPLOAD, when Completed is reported
\* the indices for which a chunk request was issued are exactly the shards.
C10_SubmittedEqualsShards ==
    (prep_status = INCOMPLETE_UPLOAD /\ reports["Completed"] > 0) =>
        Submitted = shards

\* C11: for an upload answered INCOMPLETE_OLD_UPLOAD, the PartialUploadInfo
\* lookup and every chunk request (also those issued again after a revert or
\* after pause and resume) carry the meta_id of the reply, never the file_id
\* of the task body.
C11_OldUploadUsesMetaId ==
    prep_status = INCOMPLETE_OLD_UPLOAD =>
        /\ info_requests \subseteq {MetaId}
        /\ \A r \in requests : r.file_metadata_id = MetaId

\* C11 witness: after INCOMPLETE_OLD_UPLOAD the lookup was made and a chunk
\* request was issued in a run with a lifecycle call or a failed transfer.
C11_OldUploadRequested ==
    /\ prep_status = INCOMPLETE_OLD_UPLOAD
    /\ info_requests # {}
    /\ requests # {}
    /\ events_left < MaxEvents

C13_FatalStopsEverything ==
    Fatal => after_fatal = {}

\* the terminal reports sent for the task, by any sender
TerminalReports ==
    { <<st, by>> \in {"Completed", "Failed", "Cancelled"} \X Senders :
        jreports[st, by] > 0 }

\* C14: of two successive refreshes for which the scheduler returns the same
\* state, the second sends no report; a refresh that polls the state that is
\* stored sends none either.
C14_SameStateNoReport ==
    /\ (last_poll.by = "refresh" /\ prev_poll.by = "refresh"
          /\ last_poll.state = prev_poll.state) => last_poll.report = "none"
    /\ (last_poll.by = "refresh" /\ last_poll.state = last_poll.pre)
          => last_poll.report = "none"

\* C14 witness: two refreshes in a row polled Suspended; the first of them
\* stored it.
C14_SuspendedTwice ==
    /\ last_poll.by = "refresh" /\ prev_poll.by = "refresh"
    /\ last_poll.state = "Suspended" /\ prev_poll.state = "Suspended"
    /\ prev_poll.report = "Paused"

\* C15: a refresh that polls Suspended when the poll before it returned
\* another state sends the Paused report.
C15_PausedOnEverySuspension ==
    (last_poll.by = "refresh" /\ last_poll.state = "Suspended"
        /\ prev_poll.by # "none" /\ prev_poll.state # "Suspended")
      => last_poll.report = "Paused"

\* C16: at most one terminal report (Completed, Failed or Cancelled) is sent
\* for the task, however the tick's refresh and a call interleave.
C16_OneTerminalReport ==
    /\ Cardinality(TerminalReports) <= 1
    /\ \A t \in TerminalReports : jreports[t[1], t[2]] = 1

C18_StartFailureReported ==
    js_pc \in {"err_submit", "err_poll"} => jreports["Failed", "start"] > 0

\* C19: with LSF, a pause, resume or cancel of a task whose job runs ends in
\* a Failed report of the call ("unimplemented") and leaves the job in the
\* map.
C19_LsfCallReportsUnimplemented ==
    (scheduler = "lsf" /\ js_pc = "done" /\ last_poll.raw = "RUN"
        /\ call_errs # {})
      => /\ \A e \in call_errs : e.err = "unimplemented!"
         /\ jreports["Failed", "call"] > 0
         /\ repo # "none"

\* C20: an LSF job first polled in status RUN or EXITING is decoded Running
\* and reported Started.
C20_LsfRunIsRunning ==
    (scheduler = "lsf" /\ last_poll.by = "start"
        /\ last_poll.raw \in {"RUN", "EXITING"})
      => /\ last_poll.state = "Running"
         /\ jreports["Started", "start"] = 1

\* C24: an upload whose local file is missing and whose body is optional
\* sends no Prepare, PartialUploadInfo or PartialUpload request and builds no
\* supervisor; when start has ended, run returned the message "File not found
\* but it is optional" and exactly one Completed and no Failed was reported.
C24_OptionalMissingCompletes ==
    (kind = "upload" /\ ~file_present /\ optional) =>
        /\ prep_status = NoStatus
        /\ info_requests = {}
        /\ requests = {}
        /\ sup_pc = "idle"
        /\ Task \notin id2supervisor
        /\ svc_pc = "done" =>
              /\ result = "optional"
              /\ reports["Completed"] = 1
              /\ reports["Failed"] = 0

\* C24 witness: start has ended for an optional upload without local file.
C24_OptionalMissingDone ==
    /\ kind = "upload" /\ ~file_present /\ optional
    /\ svc_pc = "done"
    /\ reports["Completed"] = 1

\* C25: for an upload, once cancel(id) found the supervisor and reported
\* Cancelled, start reports neither Completed nor Failed: at most one of
\* Completed, Failed and Cancelled is reported for the task.
C25_UploadOneTerminalReport ==
    kind = "upload" =>
        /\ reports["Cancelled"] > 0 =>
              (reports["Completed"] = 0 /\ reports["Failed"] = 0)
        /\ reports["Completed"] + reports["Failed"] + reports["Cancelled"] <= 1

\* C27: the Started report of an upload is issued only when the
\* id->supervisor map already has the entry of the task.
C27_StartedAfterRegistered ==
    [][ (kind = "upload" /\ reports'["Started"] > reports["Started"])
            => Task \in id2supervisor ]_vars

\* C28: when the chunk transfer fails on every attempt, a transfer whose
\* supervisor loop has started ends with a Failed report.
C28_FailingChunkEndsFailed ==
    (svc_pc = "supervise") ~> (reports["Failed"] > 0)

\* C29: a supervisor loop that waits in its select with the pause flag set
\* and whose transfer was cancelled leaves the loop with the cancelled outcome
\* while the flag is still set, and whenever the loop leaves with that
\* outcome the current worker-cancellation token is cancelled.
C29_PausedSupervisorCancels ==
    /\ [](sup_pc = "exit_true" => cancel_workers \in cancelled)
    /\ (pause_token /\ cancel_transfer /\ sup_pc = "select")
          ~> (sup_pc = "exit_true" \/ ~pause_token)

\* C29 witness: the loop left with the cancelled outcome, the flag still set
\* and no resume ever called; the token pause installed is cancelled.
C29_CancelledWhilePaused ==
    /\ sup_pc = "exit_true"
    /\ pause_token
    /\ reports["Paused"] = 1
    /\ reports["Resumed"] = 0 /\ resume_pc = "idle"
    /\ cancel_workers = 1 /\ cancel_workers \in cancelled

\* the inner future of f has been polled in the poll under way, or before
InnerReached(f) == fut[f].pc \in {"inner", "inner_wait", "done"}

\* the task of f is idle on the token although the flag is clear and no
\* resume() has its wake still to do
WakeupLost(f) == fut[f].pc = "parked" /\ ~pt_set /\ wake_pending = 0

\* C21: with one future attached, no interleaving of its poll with pause()
\* and resume() loses the wakeup of a resume: the future is never left idle
\* with the flag clear, and whenever the flag is clear the future's inner
\* future gets polled unless pause() sets the flag again.
C21_ResumeWakeupNotLost ==
    /\ [](Attached = {1} => ~WakeupLost(1))
    /\ (Attached = {1} /\ ~pt_set) ~> (InnerReached(1) \/ pt_set)

\* C21 witness: the single future was parked while paused, the wake of a
\* resume() scheduled it, and its poll has reached the inner future.
C21_WokenAndPolled ==
    /\ Attached = {1}
    /\ fut[1].pc = "inner" /\ fut[1].woken
    /\ ~pt_set /\ wake_pending = 0

\* C22: with two or more futures attached, a resume() that has returned
\* leaves none of them idle on the token.
C22_ResumeWakesAll ==
    Cardinality(Attached) >= 2 => \A f \in Attached : ~WakeupLost(f)

\* the statuses of a kind reported for task t
Reported(t, statuses) ==
    Cardinality({ i \in 1..Len(dlog[t]) : dlog[t][i] \in statuses })

\* C23: the free permits and the deploy tasks that hold one add up to 5, so
\* at most 5 deploy tasks are between their Started report and the end of
\* run, whichever way run ends (return, cancellation while installing or
\* while waiting for a permit).
C23_PermitsConserved ==
    /\ deploy_guard >= 0
    /\ deploy_guard + Cardinality(Running) = DEPLOY_PERMITS
    /\ Cardinality({ t \in Running : dtask[t].run = "work" }) <= DEPLOY_PERMITS

\* C23 witness: a deploy task was cancelled while installing and its start
\* has returned; five deploy tasks hold the five permits and a further one
\* waits for a permit.
C23_AllPermitsHeld ==
    /\ deploy_guard = 0
    /\ Cardinality(Running) = DEPLOY_PERMITS
    /\ \E t \in DTasks : dtask[t].pc = "select" /\ dtask[t].run = "acquire"
    /\ \E t \in dtoken : dtask[t].pc = "done" /\ Reported(t, {"Started"}) = 1

\* C26: for every deploy and collect task at most one of Completed, Failed
\* and Cancelled is reported.
C26_DeployCollectOneTerminal ==
    \A t \in DTasks : Reported(t, {"Completed", "Failed", "Cancelled"}) <= 1

\* C30: what start and run report for a deploy task is, in order, Queued,
\* Started and then at most one of Completed and Failed, and Started is
\* reported only by a run that holds a permit.
C30_DeployReportOrder ==
    /\ [](\A t \in DTasks : dtask[t].kind = "deploy" =>
            SelectSeq(dlog[t], LAMBDA st : st # "Cancelled") \in
              { << >>, << "Queued" >>, << "Queued", "Started" >>,
                << "Queued", "Started", "Completed" >>,
                << "Queued", "Started", "Failed" >> })
    /\ [][ \A t \in DTasks :
             (dtask[t].kind = "deploy"
                /\ Reported(t, {"Started"})' > Reported(t, {"Started"}))
               => (t \in Running /\ deploy_guard < DEPLOY_PERMITS) ]_vars

\* C30 witness: a deploy task that arrived has reported Queued, Started and
\* Completed while another one waits for a permit.
C30_CompletedAfterWaiting ==
    \E t \in DTasks :
        /\ t \in NewTasks
        /\ dlog[t] = << "Queued", "Started", "Completed" >>
        /\ \E u \in DTasks : dtask[u].pc = "select" /\ dtask[u].run = "acquire"

\* the set of block indices of the upload turned out empty: the Prepare
\* reply was OK for a file of size 0, or the reply asked for the upload info
\* and the info listed no shard
EmptyIndexSet ==
    /\ kind = "upload" /\ file_present
    /\ \/ prep_status = OK /\ file_size = 0
       \/ /\ prep_status \in {INCOMPLETE_UPLOAD, INCOMPLETE_OLD_UPLOAD}
          /\ info_requests # {} /\ total = {} /\ result # "err"

\* C40: an upload whose set of block indices is empty sends no PartialUpload
\* request and ends with a Completed report.
C40_EmptyUploadCompletes ==
    /\ [](EmptyIndexSet => requests = {})
    /\ EmptyIndexSet ~> (reports["Completed"] > 0)

\* C38: whenever a worker reverts its block index the upgrade of its weak
\* reference succeeds: no worker panics in revert_block_index.
C38_RevertFindsSupervisor ==
    \A w \in Slots : workers[w].st # "revert_panicked"

\* the block indices whose Range header has been sent, and the bytes of one
RangeSent == { i \in DOMAIN rg_sent : rg_sent[i] # NoRange }

RangeBytes(i) == rg_sent[i][1]..rg_sent[i][2]

\* C31: the ranges of the blocks of a download of N >= 1 bytes in blocks of
\* B >= 1 bytes start at i*B, end at N-1 for the last index and at
\* start+B-1 otherwise, are not empty, hold at most B bytes, are pairwise
\* disjoint and contiguous, and once every block is requested they cover
\* exactly the bytes 0..N-1.
C31_DownloadRangesPartition ==
    /\ \A i \in RangeSent :
         /\ rg_sent[i][1] = i * rg_block_size
         /\ rg_sent[i][2] = IF i = rg_block_count - 1
                              THEN rg_file_size - 1
                              ELSE rg_sent[i][1] + rg_block_size - 1
         /\ RangeBytes(i) # {}
         /\ Cardinality(RangeBytes(i)) <= rg_block_size
         /\ RangeBytes(i) \subseteq 0..(rg_file_size - 1)
    /\ \A i, j \in RangeSent : i # j => RangeBytes(i) \cap RangeBytes(j) = {}
    /\ \A i, j \in RangeSent : j = i + 1 => rg_sent[j][1] = rg_sent[i][2] + 1
    /\ RangeSent = 0..(rg_block_count - 1) =>
         UNION { RangeBytes(i) : i \in RangeSent } = 0..(rg_file_size - 1)

\* every block of a file whose last block is shorter has been requested
C31_AllRangesSent ==
    /\ rg_block_count >= 2
    /\ rg_file_size % rg_block_size # 0
    /\ RangeSent = 0..(rg_block_count - 1)

\* C32: for every input and every n, also n above the number of lines, the
\* BottomLines(n) rule saves exactly the last min(n, line count) lines of
\* the input, and the task does not stop before it has completed.
C32_BottomLinesKeepsLast ==
    co_rule.kind = "BottomLines" =>
        /\ co_pc # "panicked"
        /\ co_pc \in {"save", "completed"} =>
             co_output = SubSeq(co_input,
                                Len(co_input) - Min({co_rule.n, Len(co_input)}) + 1,
                                Len(co_input))

\* C33: execute with max_retries = R invokes the closure at most R + 1
\* times, invokes it again only when the previous result is transient and
\* the policy granted the retry, and what it returns is the result of its
\* last invocation, which is either not transient or the (R + 1)-th.
C33_StreamRetryBounded ==
    /\ rt_sends <= rt_max_retries + 1
    /\ (rt_pc = "send" /\ rt_sends > 0) =>
         /\ retryable_strategy_handle(rt_result.res) = "Transient"
         /\ rt_sends = rt_n_past_retries
         /\ rt_n_past_retries <= rt_max_retries
    /\ rt_pc = "returned" =>
         /\ rt_returned = rt_result
         /\ rt_returned.attempt = rt_sends
         /\ \/ retryable_strategy_handle(rt_returned.res) # "Transient"
            \/ rt_sends = rt_max_retries + 1

\* the state the record stands for: E or F is Failed exactly when the exit
\* status is neither 0 nor 254
PbsExpected ==
    match_job_state(pbs_job_state, pbs_exit_status \notin {0, 254})

\* C34: every decoding path of the PBS client maps a record in state E or F
\* to Failed exactly when its exit status is neither 0 nor 254 and to
\* Completing (E) or Completed (F) otherwise, and get_jobs and get_job give
\* the same state for the same record.
C34_PbsPathsAgree ==
    /\ (pbs_job_state \in {"E", "F"} /\ pbs_jobs # NotDecoded) =>
          pbs_jobs.state = PbsExpected
    /\ (pbs_job_state \in {"E", "F"} /\ pbs_job # NotDecoded) =>
          pbs_job.state = PbsExpected
    /\ (pbs_jobs # NotDecoded /\ pbs_job # NotDecoded) =>
          pbs_jobs.state = pbs_job.state

\* C35: the fallback of get_job decodes a record in state E or F to the same
\* state whether Exit_status precedes or follows job_state in the text, the
\* one its exit status stands for (Failed for F with exit status 1).
C35_FallbackOrderIrrelevant ==
    (pbs_job.path = "xfw" /\ pbs_job_state \in {"E", "F"}) =>
        /\ pbs_job.state =
             get_pbs_job_alternative(
                 xfw_lines(pbs_job_state, pbs_exit_status, ~pbs_exit_first))
        /\ pbs_job.state = PbsExpected

\* C36: the periodic refreshes do not overlap: at most one call of
\* refresh_all is under way, and within it at most one refresh(id).
C36_RefreshesNeverOverlap ==
    /\ tm_active <= 1
    /\ Cardinality(tm_refreshing) <= 1
    /\ tm_pc = "tick" => tm_active = 0 /\ tm_refreshing = {}

\* a later iteration refreshes a job while the next tick is already due
C36_TickDueDuringRefresh ==
    /\ tm_iterations >= 2
    /\ tm_pc = "refresh"
    /\ Len(tm_ids) >= 2
    /\ tm_due > 0

\* C37: the operation called for a command is the operation of that name of
\* the executor of the command's task type; every dispatch returns to the
\* caller, which goes on with the next command; and the errors logged are
\* those the executors returned.
C37_CommandsRoutedByType ==
    /\ dp_call # NoCall =>
         /\ Body(dp_call.executor) = dp_cmd.type
         /\ dp_call.op = dp_cmd.op
    /\ dp_returned + dp_left + (IF dp_pc = "idle" THEN 0 ELSE 1) = MaxCommands
    /\ Len(dp_log) <= dp_returned
    /\ (dp_pc = "idle" /\ dp_call.result = "Err") =>
         /\ dp_log # << >>
         /\ dp_log[Len(dp_log)] = [tag |-> log_tag(dp_cmd.op),
                                   task_type |-> dp_cmd.type]

\* after a command whose executor failed, the next command is dispatched
C37_NextCommandAfterError ==
    /\ dp_log # << >>
    /\ dp_returned >= 1
    /\ dp_pc = "if_let"
    /\ dp_cmd.type = "CollectOuput"

\* a task is waiting for a mutex
LockWaiting(c) ==
    lk_pc[c] \in {"insert", "remove", "spawn_lock", "cancel_lock", "map_lock",
                  "cw_lock"}

====
